---- MODULE Spec2Model ----
(***************************************************************************)
(* Matchmaking queue and session engine of the anonymous chat bot          *)
(* (src/server.js): the waiting pool (waitingQueue), the session table     *)
(* (activeChats), the part of the user store the engine reads and writes,  *)
(* and the asynchronous handlers that operate on them.  A handler that     *)
(* awaits is a task suspended at that await; the code between two awaits   *)
(* is one step.  Handlers without an await are single steps.               *)
(***************************************************************************)
EXTENDS Integers, Sequences, FiniteSets, Bags, TLC

NumUsers == 3
MaxTasks == 2
MaxPremium == 2
MaxBanned == 1
\* the clock advances in steps of TickMs up to MaxClock (milliseconds)
TickMs == 10000
MaxClock == 10000
\* text messages in a burst
MaxTexts == 4
MaxBurst == 2
\* earlier repeats of a text
PriorRepeats == 13
PriorOthers == 6
WindowBurst == 2
\* the users that report; the first MaxRepeaters of them report again
MaxReporters == 51
MaxRepeaters == 1
MaxWarnings == 3
\* entries the ledger of received messages keeps
MaxReceived == 20
\* bad words in the two foul texts, links in the text with links
SmallFoul == 20
LargeFoul == 30
ManyLinks == 10

\* anti-abuse policy of the message handler
FloodThreshold == 20
FloodSpan == 10000
BadWordLimit == 50
LinkLimit == 20
RepeatLimit == 15
RepeatWindow == 20
WarningLimit == 3
ReportLimit == 50

Users == 1..NumUsers
\* the users that buy or are granted premium
PremiumUsers == 1..MaxPremium
None == 0

NoDate == "none"
Future == "future"
Past == "past"

Prefs == {"none", "male", "female"}

\* gender is fixed at registration; odd ids registered male, even ids female
Gender(u) == IF u % 2 = 1 THEN "male" ELSE "female"

VARIABLES
    activeChats,    \* userId -> partnerId (None: no key)
    waitingQueue,   \* the Map's live entries in iteration order
    isActive,       \* User.isActive
    isPremium,      \* User.isPremium
    premiumExpire,  \* User.premiumExpire compared with the clock
    keyboard,       \* the users that were sent the find_* buttons
    tasks,          \* bag of the handlers in flight, each suspended at an await
    out,            \* what the last step signalled to a user, if anything
    clock,          \* Date.now()
    safeMode,       \* User.safeMode
    floodMessages,  \* User.floodMessages: timestamps of recent messages
    badWordCount,   \* User.badWordCount
    linkSpamCount,  \* User.linkSpamCount
    repeatSpamCount,\* User.repeatSpamCount
    lastMessages,   \* User.lastMessages: recent message texts
    warnings,       \* User.warnings.length
    received,       \* per sender, the messages the handler has taken up: their
                    \* times as far back as the flood span, their bad words
                    \* and links in total, their texts as far back as the
                    \* repeat window
    reports,        \* Report collection: per reported user, the reporters
                    \* that have a report about the user
    recent,         \* of these, the reporters with a report about the user
                    \* in the last seven days (kept for the repeaters)
    reportCount,    \* User.reportCount
    asked,          \* the reporters that have come forward so far
    invoice,        \* per user, the partner named in the payload of the
                    \* identity reveal invoice the user was sent
    tiers           \* the two-tier pool the waiting pool is compared with, and
                    \* what it answered to the last request

\* the anti-abuse part of the user store, and the clock
abuseVars == <<clock, safeMode, floodMessages, badWordCount, linkSpamCount,
               repeatSpamCount, lastMessages, warnings, received>>

\* the Report collection and the report total of the user store
reportVars == <<reports, recent, reportCount, asked>>

vars == <<activeChats, waitingQueue, isActive, isPremium, premiumExpire, keyboard,
          tasks, out, abuseVars, reportVars, invoice, tiers>>

\* a message without text (photo, video, document, audio, voice, sticker)
NoText == <<>>

\* the locals of a suspended handler
Task(pc, userId) ==
    [pc |-> pc, user |-> userId, pref |-> "none",
     uActive |-> FALSE, uPremium |-> FALSE, uExpire |-> NoDate,
     prem |-> FALSE, pos |-> 0, cur |-> None, curPremium |-> FALSE,
     partner |-> None, pActive |-> FALSE, pSafe |-> FALSE,
     text |-> NoText, stale |-> FALSE,
     uFlood |-> <<>>, uBad |-> 0, uLinks |-> 0, uRepeat |-> 0, uLast |-> <<>>,
     dirty |-> {}, reporter |-> None, uReports |-> 0, handled |-> TRUE]

NoOut == [user |-> None, sig |-> "None", partner |-> None]

Signal(u, s, p) == [user |-> u, sig |-> s, partner |-> p]

\* the two-tier pool with nobody waiting and nothing answered
NoTiers == [premium |-> <<>>, regular |-> <<>>, out |-> NoOut]

InFlight == BagToSet(tasks)

Resumed(T, T2) == (tasks (-) SetToBag({T})) (+) SetToBag({T2})

Finished(T) == tasks (-) SetToBag({T})

Invoked(T) == tasks (+) SetToBag({T})

CanInvoke == BagCardinality(tasks) < MaxTasks

RECURSIVE Copies(_, _)
Copies(B, S) ==
    IF S = {} THEN 0
    ELSE LET r == CHOOSE x \in S : TRUE IN B[r] + Copies(B, S \ {r})

\* the bag B with every handler r replaced by f[r]
MapTasks(f, B) ==
    LET S == BagToSet(B)
    IN  [x \in {f[r] : r \in S} |-> Copies(B, {r \in S : f[r] = x})]

----
\* Map operations on the waiting pool

InQueue(q, id) == \E i \in 1..Len(q) : q[i].id = id

IndexOf(q, id) ==
    IF InQueue(q, id) THEN CHOOSE i \in 1..Len(q) : q[i].id = id ELSE 0

\* a delete that leaves the Map as it is
QueueKeep(q, id) == q

QueueDelete(q, id) == SelectSeq(q, LAMBDA e : e.id # id)

\* an entry that is always queued as not premium
EntryRegular(id, pref, premium) ==
    [id |-> id, gender |-> IF pref = "none" THEN "any" ELSE pref, isPremium |-> FALSE]

Entry(id, pref, premium) ==
    [id |-> id, gender |-> IF pref = "none" THEN "any" ELSE pref, isPremium |-> premium]

\* Map.set: a present key keeps its place and takes the new value
QueueSet(q, e) ==
    IF InQueue(q, e.id)
    THEN [i \in 1..Len(q) |-> IF q[i].id = e.id THEN e ELSE q[i]]
    ELSE Append(q, e)

\* Array.from, clear, set(userId), then set every former entry again
QueueRebuild(q, e) ==
    LET front == IF InQueue(q, e.id) THEN q[IndexOf(q, e.id)] ELSE e
    IN  <<front>> \o QueueDelete(q, e.id)

\* a live Map iterator that has passed pos live entries: a deletion at or
\* before its position moves it back by one, clear() puts every entry that
\* is set afterwards ahead of it
IterAfterDelete(B, q, id) ==
    LET i == IndexOf(q, id)
    IN  MapTasks([r \in BagToSet(B) |->
                     IF i > 0 /\ r.pos >= i THEN [r EXCEPT !.pos = @ - 1] ELSE r], B)

IterAfterClear(B) == MapTasks([r \in BagToSet(B) |-> [r EXCEPT !.pos = 0]], B)

\* a loop that hands every entry to its body, the requester's own included
NextIdxAny(q, pos, userId) == IF pos < Len(q) THEN pos + 1 ELSE 0

\* the next entry a for-of loop that skips userId hands to its body
NextIdx(q, pos, userId) ==
    IF \E i \in (pos + 1)..Len(q) : q[i].id # userId
    THEN CHOOSE i \in (pos + 1)..Len(q) :
            q[i].id # userId /\ \A j \in (pos + 1)..(i - 1) : q[j].id = userId
    ELSE 0

----
\* the schema defaults of the anti-abuse fields; nothing received yet
NewStore ==
    /\ clock = 0
    /\ floodMessages = [u \in Users |-> <<>>]
    /\ badWordCount = [u \in Users |-> 0]
    /\ linkSpamCount = [u \in Users |-> 0]
    /\ repeatSpamCount = [u \in Users |-> 0]
    /\ lastMessages = [u \in Users |-> <<>>]
    /\ warnings = [u \in Users |-> 0]
    /\ received = [u \in Users |-> [at |-> <<>>, bad |-> 0, links |-> 0, texts |-> <<>>]]
    /\ reports = [u \in Users |-> {}]
    /\ recent = [u \in Users |-> {}]
    /\ reportCount = [u \in Users |-> 0]
    /\ asked = 0
    /\ invoice = [u \in Users |-> None]
    /\ tiers = NoTiers

Init ==
    /\ activeChats = [u \in Users |-> None]
    /\ waitingQueue = <<>>
    /\ isActive = [u \in Users |-> TRUE]
    /\ isPremium = [u \in Users |-> FALSE]
    /\ premiumExpire = [u \in Users |-> NoDate]
    /\ keyboard = {}
    /\ tasks = EmptyBag
    /\ out = NoOut
    /\ safeMode = [u \in Users |-> TRUE]
    /\ NewStore

----
\* Session table operations

\* a check that consults the pool instead of the session table
AlreadyWaiting(u) == InQueue(waitingQueue, u)

AlreadyInChat(u) == activeChats[u] # None

\* an end that forgets the caller's own key
EndChatPartnerOnly(ac, userId) ==
    LET partnerId == ac[userId]
    IN  IF partnerId # None THEN [ac EXCEPT ![partnerId] = None] ELSE ac

EndChat(ac, userId) ==
    LET partnerId == ac[userId]
    IN  IF partnerId # None
        THEN [ac EXCEPT ![userId] = None, ![partnerId] = None]
        ELSE ac

\* a start that records the session for the requester only
StartChatOneSided(ac, user1Id, user2Id) == [ac EXCEPT ![user1Id] = user2Id]

StartChatMap(ac, user1Id, user2Id) ==
    [ac EXCEPT ![user1Id] = user2Id, ![user2Id] = user1Id]

\* checkPremiumStatus on a fetched document
\* premium taken from the flag alone
PremiumFlag(flag, expire) == flag

PremiumActive(flag, expire) == flag /\ expire = Future
PremiumLapsed(flag, expire) == flag /\ expire = Past

\* User.findOne: the handler holds a copy of the document
Fetch(T, nextpc) ==
    [T EXCEPT !.pc = nextpc, !.uActive = isActive[T.user],
              !.uPremium = isPremium[T.user], !.uExpire = premiumExpire[T.user]]

\* the outcome of checkPremiumStatus is kept, the document is not used again
Evaluated(T, savepc, nextpc) ==
    [T EXCEPT !.pc = IF PremiumLapsed(T.uPremium, T.uExpire) THEN savepc ELSE nextpc,
              !.prem = PremiumActive(T.uPremium, T.uExpire),
              !.uActive = FALSE, !.uPremium = FALSE, !.uExpire = NoDate]

----
\* findPartner

\* a scan that returns the most recent entry instead of the oldest
LastOther(q, userId) ==
    IF \E i \in 1..Len(q) : q[i].id # userId
    THEN q[CHOOSE i \in 1..Len(q) :
              q[i].id # userId /\ \A j \in (i + 1)..Len(q) : q[j].id = userId].id
    ELSE None

\* the synchronous scan of the non-preferential branch
FirstOther(q, userId) ==
    LET i == NextIdx(q, 0, userId) IN IF i = 0 THEN None ELSE q[i].id

Tier1Match(partnerId, partnerPremium, preferredGender) ==
    Gender(partnerId) = preferredGender /\ partnerPremium

Tier2Match(partnerId, preferredGender) ==
    Gender(partnerId) = preferredGender

Preferential(T) == T.prem /\ T.pref # "none"

\* entry into findPartner from a command handler
CallFindPartner(T, pref) ==
    /\ waitingQueue' = QueueDelete(waitingQueue, T.user)
    /\ tasks' = IterAfterDelete(
                    Resumed(T, [Task("fp_getUser", T.user) EXCEPT !.pref = pref]),
                    waitingQueue, T.user)

\* the tail of findPartner: no candidate, the requester is queued
Enqueue(T) ==
    LET e == Entry(T.user, T.pref, T.prem)
    IN  /\ IF T.prem
           THEN /\ waitingQueue' = QueueRebuild(waitingQueue, e)
                /\ tasks' = IterAfterClear(Finished(T))
           ELSE /\ waitingQueue' = QueueSet(waitingQueue, e)
                /\ tasks' = Finished(T)
        /\ out' = Signal(T.user, "Waiting", None)
        /\ UNCHANGED <<activeChats, isActive, isPremium, premiumExpire, keyboard, abuseVars, reportVars, invoice, tiers>>

\* a candidate is taken out of the pool and returned to the caller
ReturnPartner(T, partnerId) ==
    /\ waitingQueue' = QueueDelete(waitingQueue, partnerId)
    /\ tasks' = IterAfterDelete(
                    Resumed(T, [Task("start", T.user) EXCEPT !.partner = partnerId]),
                    waitingQueue, partnerId)
    /\ out' = NoOut
    /\ UNCHANGED <<activeChats, isActive, isPremium, premiumExpire, keyboard, abuseVars, reportVars, invoice, tiers>>

\* the loop hands the entry at index i to its body, which awaits getUser
Visit(T, i, nextpc) ==
    /\ tasks' = Resumed(T, [T EXCEPT !.pc = nextpc, !.pos = i,
                                     !.cur = waitingQueue[i].id,
                                     !.curPremium = FALSE])
    /\ out' = NoOut
    /\ UNCHANGED <<activeChats, waitingQueue, isActive, isPremium, premiumExpire, keyboard, abuseVars, reportVars, invoice, tiers>>

SecondLoop(T) ==
    LET j == NextIdx(waitingQueue, 0, T.user)
    IN  IF j # 0 THEN Visit(T, j, "l2_chk") ELSE Enqueue(T)

FpGetUser(T) ==
    /\ T.pc = "fp_getUser"
    /\ tasks' = Resumed(T, Fetch(T, "fp_prem"))
    /\ out' = NoOut
    /\ UNCHANGED <<activeChats, waitingQueue, isActive, isPremium, premiumExpire, keyboard, abuseVars, reportVars, invoice, tiers>>

FpPrem(T) ==
    /\ T.pc = "fp_prem"
    /\ tasks' = Resumed(T, Evaluated(T, "fp_save", "fp_scan"))
    /\ out' = NoOut
    /\ UNCHANGED <<activeChats, waitingQueue, isActive, isPremium, premiumExpire, keyboard, abuseVars, reportVars, invoice, tiers>>

FpSave(T) ==
    /\ T.pc = "fp_save"
    /\ isPremium' = [isPremium EXCEPT ![T.user] = FALSE]
    /\ tasks' = Resumed(T, [T EXCEPT !.pc = "fp_scan"])
    /\ out' = NoOut
    /\ UNCHANGED <<activeChats, waitingQueue, isActive, premiumExpire, keyboard, abuseVars, reportVars, invoice, tiers>>

FpScan(T) ==
    /\ T.pc = "fp_scan"
    /\ IF Preferential(T)
       THEN LET i == NextIdx(waitingQueue, 0, T.user)
            IN  IF i # 0 THEN Visit(T, i, "l1_get") ELSE Enqueue(T)
       ELSE LET p == FirstOther(waitingQueue, T.user)
            IN  IF p # None THEN ReturnPartner(T, p) ELSE Enqueue(T)

L1Get(T) ==
    /\ T.pc = "l1_get"
    /\ tasks' = Resumed(T, [T EXCEPT !.pc = "l1_chk", !.curPremium = isPremium[T.cur]])
    /\ out' = NoOut
    /\ UNCHANGED <<activeChats, waitingQueue, isActive, isPremium, premiumExpire, keyboard, abuseVars, reportVars, invoice, tiers>>

L1Chk(T) ==
    /\ T.pc = "l1_chk"
    /\ IF Tier1Match(T.cur, T.curPremium, T.pref)
       THEN ReturnPartner(T, T.cur)
       ELSE LET i == NextIdx(waitingQueue, T.pos, T.user)
            IN  IF i # 0 THEN Visit(T, i, "l1_get") ELSE SecondLoop(T)

L2Chk(T) ==
    /\ T.pc = "l2_chk"
    /\ IF Tier2Match(T.cur, T.pref)
       THEN ReturnPartner(T, T.cur)
       ELSE LET i == NextIdx(waitingQueue, T.pos, T.user)
            IN  IF i # 0 THEN Visit(T, i, "l2_chk") ELSE Enqueue(T)

StartChat(T) ==
    /\ T.pc = "start"
    /\ LET q1 == QueueDelete(waitingQueue, T.user)
       IN  /\ activeChats' = StartChatMap(activeChats, T.user, T.partner)
           /\ waitingQueue' = QueueDelete(q1, T.partner)
           /\ tasks' = IterAfterDelete(IterAfterDelete(Finished(T), waitingQueue, T.user),
                                       q1, T.partner)
           /\ out' = Signal(T.user, "Matched", T.partner)
    /\ UNCHANGED <<isActive, isPremium, premiumExpire, keyboard, abuseVars, reportVars, invoice, tiers>>

----
\* /chat

ChatCmd(u) ==
    /\ CanInvoke
    /\ tasks' = Invoked(Fetch(Task("chat_check", u), "chat_check"))
    /\ out' = NoOut
    /\ UNCHANGED <<activeChats, waitingQueue, isActive, isPremium, premiumExpire, keyboard, abuseVars, reportVars, invoice, tiers>>

ChatCheck(T) ==
    /\ T.pc = "chat_check"
    /\ IF AlreadyInChat(T.user)
       THEN /\ out' = Signal(T.user, "AlreadyInSession", None)
            /\ tasks' = Finished(T)
       ELSE IF ~T.uActive
       THEN /\ out' = Signal(T.user, "Banned", None)
            /\ tasks' = Finished(T)
       ELSE /\ tasks' = Resumed(T, Evaluated(T, "chat_save", "chat_branch"))
            /\ out' = NoOut
    /\ UNCHANGED <<activeChats, waitingQueue, isActive, isPremium, premiumExpire, keyboard, abuseVars, reportVars, invoice, tiers>>

ChatSave(T) ==
    /\ T.pc = "chat_save"
    /\ isPremium' = [isPremium EXCEPT ![T.user] = FALSE]
    /\ tasks' = Resumed(T, [T EXCEPT !.pc = "chat_branch"])
    /\ out' = NoOut
    /\ UNCHANGED <<activeChats, waitingQueue, isActive, premiumExpire, keyboard, abuseVars, reportVars, invoice, tiers>>

ChatBranch(T) ==
    /\ T.pc = "chat_branch"
    /\ IF T.prem
       THEN /\ out' = Signal(T.user, "ChooseGender", None)
            /\ keyboard' = keyboard \cup {T.user}
            /\ tasks' = Finished(T)
            /\ waitingQueue' = waitingQueue
       ELSE /\ CallFindPartner(T, "none")
            /\ keyboard' = keyboard
            /\ out' = NoOut
    /\ UNCHANGED <<activeChats, isActive, isPremium, premiumExpire, abuseVars, reportVars, invoice, tiers>>

----
\* callback_query find_male / find_female / find_random

FindCallback(u, pref) ==
    /\ CanInvoke
    /\ u \in keyboard
    /\ tasks' = Invoked([Task("find_check", u) EXCEPT !.pref = pref])
    /\ out' = NoOut
    /\ UNCHANGED <<activeChats, waitingQueue, isActive, isPremium, premiumExpire, keyboard, abuseVars, reportVars, invoice, tiers>>

FindCheck(T) ==
    /\ T.pc = "find_check"
    /\ IF AlreadyInChat(T.user)
       THEN /\ out' = Signal(T.user, "AlreadyInSession", None)
            /\ tasks' = Finished(T)
            /\ waitingQueue' = waitingQueue
       ELSE /\ CallFindPartner(T, T.pref)
            /\ out' = NoOut
    /\ UNCHANGED <<activeChats, isActive, isPremium, premiumExpire, keyboard, abuseVars, reportVars, invoice, tiers>>

----
\* /stop

StopCmd(u) ==
    /\ activeChats' = EndChat(activeChats, u)
    /\ waitingQueue' = QueueDelete(waitingQueue, u)
    /\ tasks' = IterAfterDelete(tasks, waitingQueue, u)
    /\ out' = Signal(u, IF activeChats[u] # None THEN "ChatEnded" ELSE "NoActiveSession",
                     activeChats[u])
    /\ UNCHANGED <<isActive, isPremium, premiumExpire, keyboard, abuseVars, reportVars, invoice, tiers>>

----
\* administration

BanCmd(u) ==
    /\ CanInvoke
    /\ Cardinality({v \in Users : ~isActive[v]}) < MaxBanned
    /\ isActive[u]
    /\ isActive' = [isActive EXCEPT ![u] = FALSE]
    /\ tasks' = Invoked(Task("ban_end", u))
    /\ out' = NoOut
    /\ UNCHANGED <<activeChats, waitingQueue, isPremium, premiumExpire, keyboard, abuseVars, reportVars, invoice, tiers>>

BanEnd(T) ==
    /\ T.pc = "ban_end"
    /\ activeChats' = EndChat(activeChats, T.user)
    /\ tasks' = Finished(T)
    /\ out' = Signal(T.user, "BannedByAdmin", None)
    /\ UNCHANGED <<waitingQueue, isActive, isPremium, premiumExpire, keyboard, abuseVars, reportVars, invoice, tiers>>

\* /unban: targetUser.isActive = true; targetUser.reportCount = 0; save
UnbanCmd(u) ==
    /\ ~isActive[u]
    /\ isActive' = [isActive EXCEPT ![u] = TRUE]
    /\ reportCount' = [reportCount EXCEPT ![u] = 0]
    /\ out' = NoOut
    /\ UNCHANGED <<activeChats, waitingQueue, isPremium, premiumExpire, tasks, keyboard,
                   abuseVars, reports, recent, asked, invoice, tiers>>

\* /resetreports: user.reportCount = 0; save.  The reports of the user are
\* marked resolved, which no query of the report callback looks at.
ResetReports(u) ==
    /\ reportCount' = [reportCount EXCEPT ![u] = 0]
    /\ out' = Signal(u, "ReportsReset", None)
    /\ UNCHANGED <<activeChats, waitingQueue, isActive, isPremium, premiumExpire, tasks,
                   keyboard, abuseVars, reports, recent, asked, invoice, tiers>>

EndChatCmd(u) ==
    /\ activeChats' = EndChat(activeChats, u)
    /\ out' = Signal(u, IF activeChats[u] # None THEN "EndedByAdmin" ELSE "NotInChat",
                     activeChats[u])
    /\ UNCHANGED <<waitingQueue, isActive, isPremium, premiumExpire, tasks, keyboard, abuseVars, reportVars, invoice, tiers>>

GrantPremium(u) ==
    /\ premiumExpire[u] # Future
    /\ isPremium' = [isPremium EXCEPT ![u] = TRUE]
    /\ premiumExpire' = [premiumExpire EXCEPT ![u] = Future]
    /\ out' = NoOut
    /\ UNCHANGED <<activeChats, waitingQueue, isActive, tasks, keyboard, abuseVars, reportVars, invoice, tiers>>

CancelPremiumCmd(u) ==
    /\ isPremium[u]
    /\ isPremium' = [isPremium EXCEPT ![u] = FALSE]
    /\ premiumExpire' = [premiumExpire EXCEPT ![u] = NoDate]
    /\ out' = NoOut
    /\ UNCHANGED <<activeChats, waitingQueue, isActive, tasks, keyboard, abuseVars, reportVars, invoice, tiers>>

\* the clock passes premiumExpire of u: every comparison made from now on,
\* on the stored date or on a fetched copy of it, finds it in the past
PremiumExpires(u) ==
    /\ premiumExpire[u] = Future
    /\ premiumExpire' = [premiumExpire EXCEPT ![u] = Past]
    /\ tasks' = MapTasks([r \in InFlight |->
                             IF r.user = u /\ r.uExpire = Future
                             THEN [r EXCEPT !.uExpire = Past] ELSE r], tasks)
    /\ out' = NoOut
    /\ UNCHANGED <<activeChats, waitingQueue, isActive, isPremium, keyboard, abuseVars, reportVars, invoice, tiers>>

----
\* content filter

\* the entries of the bad word list that the modelled texts use
badWords == {"spam"}

\* the words that linkRegex matches
IsLink(w) == w \in {"t.me/x"}

\* a text is its sequence of words
containsBadWords(text) == \E i \in 1..Len(text) : text[i] \in badWords

countBadWords(text) == Cardinality({i \in 1..Len(text) : text[i] \in badWords})

containsLinks(text) == \E i \in 1..Len(text) : IsLink(text[i])

countLinks(text) == Cardinality({i \in 1..Len(text) : IsLink(text[i])})

Rep(w, n) == [i \in 1..n |-> w]

\* the texts users send: a clean one, two with bad words, one with links
Texts == <<Rep("hi", 1), Rep("spam", SmallFoul), Rep("spam", LargeFoul),
           Rep("t.me/x", ManyLinks)>>

TextSet == {Texts[i] : i \in 1..Len(Texts)}

----
\* message relay

\* a filter that keeps every timestamp
RecentAll(w, now) == w

\* floodMessages.filter(t => now - t < 10000)
Recent(w, now) == SelectSeq(w, LAMBDA t : now - t < FloodSpan)

Least2(a, b) == IF a < b THEN a ELSE b

\* the ledger after a message with this text has been taken up at time now;
\* the totals are counted up to the limits
Logged(r, text, now) ==
    LET at == Recent(Append(r.at, now), now)
        texts == Append(r.texts, text)
    IN  [at |-> IF Len(at) > MaxReceived THEN Tail(at) ELSE at,
         bad |-> Least2(r.bad + countBadWords(text), BadWordLimit),
         links |-> Least2(r.links + countLinks(text), LinkLimit),
         texts |-> IF text = NoText THEN r.texts
                   ELSE IF Len(texts) > RepeatWindow THEN Tail(texts) ELSE texts]

\* the handlers that hold a fetched document of user u
HoldsDoc(r, u) ==
    /\ r.user = u
    /\ r.pc \in {"relay_partner", "relay_gate", "relay_bad", "relay_link",
                 "relay_rep", "relay_banned", "relay_send"}

\* a save that sets an array raises the document version: the copies other
\* handlers hold are out of date from then on
MarkStale(B, u) ==
    MapTasks([r \in BagToSet(B) |->
                 IF HoldsDoc(r, u) THEN [r EXCEPT !.stale = TRUE] ELSE r], B)

Versioned(T) == T.dirty \cap {"floodMessages", "lastMessages"} # {}

\* user.save() writes the modified paths of the handler's document
StoreWrite(T) ==
    /\ isActive' = IF "isActive" \in T.dirty
                   THEN [isActive EXCEPT ![T.user] = T.uActive] ELSE isActive
    /\ floodMessages' = IF "floodMessages" \in T.dirty
                        THEN [floodMessages EXCEPT ![T.user] = T.uFlood]
                        ELSE floodMessages
    /\ badWordCount' = IF "badWordCount" \in T.dirty
                       THEN [badWordCount EXCEPT ![T.user] = T.uBad] ELSE badWordCount
    /\ linkSpamCount' = IF "linkSpamCount" \in T.dirty
                        THEN [linkSpamCount EXCEPT ![T.user] = T.uLinks]
                        ELSE linkSpamCount
    /\ repeatSpamCount' = IF "repeatSpamCount" \in T.dirty
                          THEN [repeatSpamCount EXCEPT ![T.user] = T.uRepeat]
                          ELSE repeatSpamCount
    /\ lastMessages' = IF "lastMessages" \in T.dirty
                       THEN [lastMessages EXCEPT ![T.user] = T.uLast] ELSE lastMessages

StoreSame ==
    UNCHANGED <<isActive, floodMessages, badWordCount, linkSpamCount,
                repeatSpamCount, lastMessages, reportVars, invoice, tiers>>

\* await user.save() outside the try block, issued by handler T that has
\* become T2.  A save that sets an array carries the version the document
\* was read with: when the document is out of date the save either fails
\* (the handler is rejected) or overwrites what the other handler wrote.
Save(T, T2) ==
    \E fail \in BOOLEAN :
        /\ fail => (Versioned(T2) /\ T2.stale)
        /\ IF fail
           THEN /\ StoreSame
                /\ tasks' = Finished(T)
                /\ out' = Signal(T.user, "Rejected", T.partner)
           ELSE /\ StoreWrite(T2)
                /\ tasks' = (IF Versioned(T2) THEN MarkStale(Finished(T), T.user)
                                              ELSE Finished(T))
                            (+) SetToBag({[T2 EXCEPT !.dirty = {}]})
                /\ out' = NoOut

\* the code from a resumption to the next await: the handler either goes on
\* to send (nothing is written) or issues a save
Proceed(T, T2) ==
    IF T2.pc = "relay_send"
    THEN /\ StoreSame
         /\ tasks' = Resumed(T, T2)
         /\ out' = NoOut
    ELSE Save(T, T2)

SendStage(T) == [T EXCEPT !.pc = "relay_send"]

\* checkAndAutoBan with shouldBan: the save of the ban is awaited
Ban(T) ==
    [T EXCEPT !.pc = "relay_banned", !.uActive = FALSE,
              !.dirty = @ \cup {"isActive"}]

\* 4. repeat spam detection
RepeatStage(T) ==
    IF T.text # NoText
    THEN LET pushed == Append(T.uLast, T.text)
             window == IF Len(pushed) > RepeatWindow THEN Tail(pushed) ELSE pushed
             messageCount == Cardinality({i \in 1..Len(window) : window[i] = T.text})
             T1 == [T EXCEPT !.uLast = window, !.dirty = @ \cup {"lastMessages"}]
         IN  IF messageCount >= RepeatLimit
             THEN [T1 EXCEPT !.pc = "relay_rep", !.uRepeat = messageCount,
                             !.dirty = @ \cup {"repeatSpamCount"}]
             ELSE SendStage(T1)
    ELSE SendStage(T)

\* 3. link spam detection
LinkStage(T) ==
    IF T.text # NoText /\ containsLinks(T.text)
    THEN [T EXCEPT !.pc = "relay_link", !.uLinks = @ + countLinks(T.text),
                   !.dirty = @ \cup {"linkSpamCount"}]
    ELSE RepeatStage(T)

\* 2. bad word detection
BadStage(T) ==
    IF T.text # NoText /\ containsBadWords(T.text)
    THEN [T EXCEPT !.pc = "relay_bad", !.uBad = @ + countBadWords(T.text),
                   !.dirty = @ \cup {"badWordCount"}]
    ELSE LinkStage(T)

\* 1. flood detection
FloodStage(T, now) ==
    LET window == Recent(Append(T.uFlood, now), now)
        T1 == [T EXCEPT !.uFlood = window, !.dirty = @ \cup {"floodMessages"}]
    IN  IF Len(window) >= FloodThreshold THEN Ban(T1) ELSE BadStage(T1)

\* the anti-abuse checks are applied to everybody
ExemptNobody(T) == FALSE

\* the anti-abuse checks and the closing save are skipped when the sender's
\* document carries the premium flag
Exempt(T) == T.uPremium

\* the gate looks at the sender alone
RestrictedSender(T) == ~T.uActive

\* if (!user.isActive || !partner.isActive)
Restricted(T) == ~T.uActive \/ ~T.pActive

\* a message that is not a command arrives from u: without a partner the
\* handler returns at once, with one it goes on to fetch the sender
RelayMsg(u, text) ==
    /\ CanInvoke
    /\ IF activeChats[u] = None
       THEN /\ tasks' = tasks
            /\ out' = Signal(u, "Ignored", None)
       ELSE /\ tasks' = Invoked([Task("relay_user", u) EXCEPT !.partner = activeChats[u],
                                                              !.text = text])
            /\ out' = NoOut
    /\ UNCHANGED <<activeChats, waitingQueue, isActive, isPremium, premiumExpire,
                   keyboard, abuseVars, reportVars, invoice, tiers>>

\* a message arrives from u that has no text and is none of photo, video,
\* document, audio, voice and sticker (a video note, a location, a contact)
RelayOther(u) ==
    /\ CanInvoke
    /\ IF activeChats[u] = None
       THEN /\ tasks' = tasks
            /\ out' = Signal(u, "Ignored", None)
       ELSE /\ tasks' = Invoked([Task("relay_user", u) EXCEPT !.partner = activeChats[u],
                                                              !.handled = FALSE])
            /\ out' = NoOut
    /\ UNCHANGED <<activeChats, waitingQueue, isActive, isPremium, premiumExpire,
                   keyboard, abuseVars, reportVars, invoice, tiers>>

\* getUser(userId)
RelayUser(T) ==
    /\ T.pc = "relay_user"
    /\ tasks' = Resumed(T, [T EXCEPT !.pc = "relay_partner",
                                     !.uActive = isActive[T.user],
                                     !.uPremium = isPremium[T.user],
                                     !.uExpire = premiumExpire[T.user],
                                     !.uFlood = floodMessages[T.user],
                                     !.uBad = badWordCount[T.user],
                                     !.uLinks = linkSpamCount[T.user],
                                     !.uRepeat = repeatSpamCount[T.user],
                                     !.uLast = lastMessages[T.user]])
    /\ out' = NoOut
    /\ UNCHANGED <<activeChats, waitingQueue, isActive, isPremium, premiumExpire,
                   keyboard, abuseVars, reportVars, invoice, tiers>>

\* getUser(partnerId)
RelayPartner(T) ==
    /\ T.pc = "relay_partner"
    /\ tasks' = Resumed(T, [T EXCEPT !.pc = "relay_gate",
                                     !.pActive = isActive[T.partner],
                                     !.pSafe = safeMode[T.partner]])
    /\ out' = NoOut
    /\ UNCHANGED <<activeChats, waitingQueue, isActive, isPremium, premiumExpire,
                   keyboard, abuseVars, reportVars, invoice, tiers>>

\* the restriction gate and, for a sender whose document is not premium,
\* the anti-abuse checks up to their first await
RelayGate(T) ==
    /\ T.pc = "relay_gate"
    /\ IF Restricted(T)
       THEN /\ activeChats' = EndChat(activeChats, T.user)
            /\ out' = Signal(T.user, "SessionEndedRestriction", T.partner)
            /\ tasks' = Finished(T)
            /\ StoreSame
            /\ received' = received
       ELSE /\ activeChats' = activeChats
            /\ received' = [received EXCEPT ![T.user] = Logged(@, T.text, clock)]
            /\ IF Exempt(T)
               THEN Proceed(T, SendStage(T))
               ELSE Proceed(T, FloodStage(T, clock))
    /\ UNCHANGED <<waitingQueue, isPremium, premiumExpire, keyboard, clock, safeMode,
                   warnings, reportVars, invoice, tiers>>

\* after the save of the bad word total: checkAndAutoBan(user, ..., 'badwords')
RelayBad(T) ==
    /\ T.pc = "relay_bad"
    /\ Proceed(T, IF T.uBad >= BadWordLimit THEN Ban(T) ELSE LinkStage(T))
    /\ UNCHANGED <<activeChats, waitingQueue, isPremium, premiumExpire, keyboard,
                   clock, safeMode, warnings, received, reportVars, invoice, tiers>>

\* after the save of the link total: checkAndAutoBan(user, ..., 'links')
RelayLink(T) ==
    /\ T.pc = "relay_link"
    /\ Proceed(T, IF T.uLinks >= LinkLimit THEN Ban(T) ELSE RepeatStage(T))
    /\ UNCHANGED <<activeChats, waitingQueue, isPremium, premiumExpire, keyboard,
                   clock, safeMode, warnings, received, reportVars, invoice, tiers>>

\* after the save of the repeat count: checkAndAutoBan(user, ..., 'repeat')
RelayRep(T) ==
    /\ T.pc = "relay_rep"
    /\ Proceed(T, IF T.uRepeat >= RepeatLimit THEN Ban(T) ELSE SendStage(T))
    /\ UNCHANGED <<activeChats, waitingQueue, isPremium, premiumExpire, keyboard,
                   clock, safeMode, warnings, received, reportVars, invoice, tiers>>

\* after the save of the ban: the session is ended, the message is dropped
RelayBanned(T) ==
    /\ T.pc = "relay_banned"
    /\ activeChats' = EndChat(activeChats, T.user)
    /\ tasks' = Finished(T)
    /\ out' = Signal(T.user, "AutoBanned", T.partner)
    /\ UNCHANGED <<waitingQueue, isActive, isPremium, premiumExpire, keyboard, abuseVars, reportVars, invoice, tiers>>

\* what the partner is handed for the message of T
Outcome(T) ==
    IF T.text # NoText
    THEN IF containsBadWords(T.text) THEN "FilteredAndRelayed" ELSE "Relayed"
    ELSE IF T.pSafe THEN "BlockedBySafeMode" ELSE "Relayed"

\* a catch block that leaves the session table alone
CatchKeeps(ac, userId) == ac

\* the catch block of the relay ends the sender's session
CatchEnds(ac, userId) == EndChat(ac, userId)

\* the send to the partner returns; a sender whose document is not premium
\* then saves the document inside the try block.  A message of a kind
\* without a branch is not sent at all, and the step is the closing save.
RelaySend(T, delivered) ==
    /\ T.pc = "relay_send"
    /\ T.handled \/ delivered
    /\ IF delivered
       THEN /\ out' = IF T.handled THEN Signal(T.user, Outcome(T), T.partner) ELSE NoOut
            /\ activeChats' = activeChats
            /\ IF Exempt(T)
               THEN /\ StoreSame
                    /\ tasks' = Finished(T)
               ELSE \E fail \in BOOLEAN :
                       /\ fail => (Versioned(T) /\ T.stale)
                       /\ IF fail
                          THEN /\ StoreSame
                               /\ tasks' = Resumed(T, [T EXCEPT !.pc = "relay_catch"])
                          ELSE /\ StoreWrite(T)
                               /\ tasks' = IF Versioned(T)
                                           THEN MarkStale(Finished(T), T.user)
                                           ELSE Finished(T)
       ELSE /\ out' = Signal(T.user, "SendFailed", T.partner)
            /\ activeChats' = CatchEnds(activeChats, T.user)
            /\ StoreSame
            /\ tasks' = Finished(T)
    /\ UNCHANGED <<waitingQueue, isPremium, premiumExpire, keyboard, clock, safeMode,
                   warnings, received, reportVars, invoice, tiers>>

\* the catch block after a failed save
RelayCatch(T) ==
    /\ T.pc = "relay_catch"
    /\ activeChats' = CatchEnds(activeChats, T.user)
    /\ tasks' = Finished(T)
    /\ out' = Signal(T.user, "SendFailed", T.partner)
    /\ UNCHANGED <<waitingQueue, isActive, isPremium, premiumExpire, keyboard, abuseVars, reportVars, invoice, tiers>>

\* time passes
Tick ==
    /\ clock < MaxClock
    /\ clock' = clock + TickMs
    /\ out' = NoOut
    /\ UNCHANGED <<activeChats, waitingQueue, isActive, isPremium, premiumExpire,
                   keyboard, tasks, safeMode, floodMessages, badWordCount,
                   linkSpamCount, repeatSpamCount, lastMessages, warnings, received, reportVars, invoice, tiers>>

----
\* /warn

WarnCmd(u) ==
    /\ CanInvoke
    /\ warnings[u] < MaxWarnings
    /\ tasks' = Invoked(Task("warn_find", u))
    /\ out' = NoOut
    /\ UNCHANGED <<activeChats, waitingQueue, isActive, isPremium, premiumExpire,
                   keyboard, abuseVars, reportVars, invoice, tiers>>

\* User.findOne returns: the warning is pushed and the document saved, with
\* isActive false when the document now holds three warnings or more.  The
\* push raises the document version.
WarnFind(T) ==
    /\ T.pc = "warn_find"
    /\ warnings' = [warnings EXCEPT ![T.user] = @ + 1]
    /\ IF warnings[T.user] + 1 >= WarningLimit
       THEN /\ isActive' = [isActive EXCEPT ![T.user] = FALSE]
            /\ tasks' = MarkStale(Finished(T), T.user)
                            (+) SetToBag({[T EXCEPT !.pc = "warn_end"]})
            /\ out' = NoOut
       ELSE /\ isActive' = isActive
            /\ tasks' = MarkStale(Finished(T), T.user)
            /\ out' = Signal(T.user, "Warned", None)
    /\ UNCHANGED <<activeChats, waitingQueue, isPremium, premiumExpire, keyboard,
                   clock, safeMode, floodMessages, badWordCount, linkSpamCount,
                   repeatSpamCount, lastMessages, received, reportVars, invoice, tiers>>

\* after the save of the ban
WarnEnd(T) ==
    /\ T.pc = "warn_end"
    /\ activeChats' = EndChat(activeChats, T.user)
    /\ tasks' = Finished(T)
    /\ out' = Signal(T.user, "BannedByWarnings", None)
    /\ UNCHANGED <<waitingQueue, isActive, isPremium, premiumExpire, keyboard, abuseVars, reportVars, invoice, tiers>>

----
\* callback_query report_<reason>_<reportedUserId>

Reporters == 1..MaxReporters
Repeaters == 1..MaxRepeaters

\* reporter r presses a report reason button about user u.  Reporters come
\* forward in the order of their ids; the repeaters also press again.
ReportCallback(r, u) ==
    /\ CanInvoke
    /\ r \in Repeaters \/ r = asked + 1
    /\ asked' = IF r > asked THEN r ELSE asked
    /\ tasks' = Invoked([Task("report_find", u) EXCEPT !.reporter = r])
    /\ out' = NoOut
    /\ UNCHANGED <<activeChats, waitingQueue, isActive, isPremium, premiumExpire,
                   keyboard, abuseVars, reports, recent, reportCount, invoice, tiers>>

\* User.findOne returns the reported user: premium users cannot be reported
ReportFind(T) ==
    /\ T.pc = "report_find"
    /\ IF isPremium[T.user]
       THEN /\ tasks' = Finished(T)
            /\ out' = Signal(T.reporter, "PremiumNotReportable", T.user)
       ELSE /\ tasks' = Resumed(T, [T EXCEPT !.pc = "report_existing",
                                              !.uActive = isActive[T.user],
                                              !.uPremium = isPremium[T.user],
                                              !.uExpire = premiumExpire[T.user]])
            /\ out' = NoOut
    /\ UNCHANGED <<activeChats, waitingQueue, isActive, isPremium, premiumExpire,
                   keyboard, abuseVars, reportVars, invoice, tiers>>

\* Report.findOne returns: a reporter with a report about the user in the
\* last seven days is turned away, otherwise the new report is saved
ReportExisting(T) ==
    /\ T.pc = "report_existing"
    /\ IF T.reporter \in recent[T.user]
       THEN /\ tasks' = Finished(T)
            /\ out' = Signal(T.reporter, "AlreadyReported", T.user)
            /\ UNCHANGED <<reports, recent, invoice, tiers>>
       ELSE /\ reports' = [reports EXCEPT ![T.user] = @ \cup {T.reporter}]
            /\ recent' = [recent EXCEPT ![T.user] = @ \cup ({T.reporter} \cap Repeaters)]
            /\ tasks' = Resumed(T, [T EXCEPT !.pc = "report_saved"])
            /\ out' = NoOut
    /\ UNCHANGED <<activeChats, waitingQueue, isActive, isPremium, premiumExpire,
                   keyboard, abuseVars, reportCount, asked, invoice, tiers>>

\* report.save() returns: Report.distinct('reporterUserId', ...) is issued
ReportSaved(T) ==
    /\ T.pc = "report_saved"
    /\ tasks' = Resumed(T, [T EXCEPT !.pc = "report_distinct"])
    /\ out' = NoOut
    /\ UNCHANGED <<activeChats, waitingQueue, isActive, isPremium, premiumExpire,
                   keyboard, abuseVars, reportVars, invoice, tiers>>

\* the database evaluates the distinct query
ReportDistinct(T) ==
    /\ T.pc = "report_distinct"
    /\ tasks' = Resumed(T, [T EXCEPT !.pc = "report_counted",
                                     !.uReports = Cardinality(reports[T.user])])
    /\ out' = NoOut
    /\ UNCHANGED <<activeChats, waitingQueue, isActive, isPremium, premiumExpire,
                   keyboard, abuseVars, reportVars, invoice, tiers>>

\* the query returns: reportedUser.reportCount = uniqueReports.length; save
ReportCounted(T) ==
    /\ T.pc = "report_counted"
    /\ reportCount' = [reportCount EXCEPT ![T.user] = T.uReports]
    /\ tasks' = Resumed(T, [T EXCEPT !.pc = "report_check"])
    /\ out' = NoOut
    /\ UNCHANGED <<activeChats, waitingQueue, isActive, isPremium, premiumExpire,
                   keyboard, abuseVars, reports, recent, asked, invoice, tiers>>

\* the save returns: checkAndAutoBan(reportedUser, reason, 'reports')
ReportCheck(T) ==
    /\ T.pc = "report_check"
    /\ IF ~T.uPremium /\ T.uReports >= ReportLimit
       THEN /\ isActive' = [isActive EXCEPT ![T.user] = FALSE]
            /\ tasks' = Resumed(T, [T EXCEPT !.pc = "report_banned", !.uActive = FALSE])
            /\ out' = NoOut
       ELSE /\ isActive' = isActive
            /\ tasks' = Finished(T)
            /\ out' = Signal(T.reporter, "ReportSubmitted", T.user)
    /\ UNCHANGED <<activeChats, waitingQueue, isPremium, premiumExpire, keyboard,
                   abuseVars, reportVars, invoice, tiers>>

\* after the save of the ban: the session of the reported user is ended
ReportBanned(T) ==
    /\ T.pc = "report_banned"
    /\ activeChats' = EndChat(activeChats, T.user)
    /\ tasks' = Finished(T)
    /\ out' = Signal(T.user, "AutoBanned", activeChats[T.user])
    /\ UNCHANGED <<waitingQueue, isActive, isPremium, premiumExpire, keyboard,
                   abuseVars, reportVars, invoice, tiers>>

\* seven days pass since the reports made so far
WeekPasses(u) ==
    /\ recent[u] # {}
    /\ recent' = [recent EXCEPT ![u] = {}]
    /\ out' = NoOut
    /\ UNCHANGED <<activeChats, waitingQueue, isActive, isPremium, premiumExpire,
                   keyboard, tasks, abuseVars, reports, reportCount, asked, invoice, tiers>>

----
\* identity reveal

\* callback_query send_gift: the invoice names the current partner
SendGift(u) ==
    /\ IF activeChats[u] = None
       THEN /\ invoice' = invoice
            /\ out' = Signal(u, "NotInChat", None)
       ELSE /\ invoice' = [invoice EXCEPT ![u] = activeChats[u]]
            /\ out' = Signal(u, "Invoice", activeChats[u])
    /\ UNCHANGED <<activeChats, waitingQueue, isActive, isPremium, premiumExpire,
                   keyboard, tasks, abuseVars, reportVars, tiers>>

\* successful_payment with payload reveal_identity_<partnerId>: the payment
\* of u's invoice is confirmed
RevealPaid(u) ==
    /\ CanInvoke
    /\ invoice[u] # None
    /\ invoice' = [invoice EXCEPT ![u] = None]
    /\ IF activeChats[u] # invoice[u]
       THEN /\ tasks' = tasks
            /\ out' = Signal(u, "RevealRefused", invoice[u])
       ELSE /\ tasks' = Invoked([Task("reveal_user", u) EXCEPT !.partner = invoice[u]])
            /\ out' = NoOut
    /\ UNCHANGED <<activeChats, waitingQueue, isActive, isPremium, premiumExpire,
                   keyboard, abuseVars, reportVars, tiers>>

\* getUser(userId, msg.from.username) returns
RevealUser(T) ==
    /\ T.pc = "reveal_user"
    /\ tasks' = Resumed(T, [T EXCEPT !.pc = "reveal_partner"])
    /\ out' = NoOut
    /\ UNCHANGED <<activeChats, waitingQueue, isActive, isPremium, premiumExpire,
                   keyboard, abuseVars, reportVars, invoice, tiers>>

\* getUser(partnerId) returns: each side is sent the other's identity
RevealPartner(T) ==
    /\ T.pc = "reveal_partner"
    /\ tasks' = Finished(T)
    /\ out' = Signal(T.user, "IdentityRevealed", T.partner)
    /\ UNCHANGED <<activeChats, waitingQueue, isActive, isPremium, premiumExpire,
                   keyboard, abuseVars, reportVars, invoice, tiers>>

----
\* match requests and /stop

InvokeMatch ==
    \/ \E u \in Users : ChatCmd(u)
    \/ \E u \in Users, pref \in Prefs : FindCallback(u, pref)
    \/ \E u \in Users : StopCmd(u)

ResumeMatch ==
    \/ \E T \in InFlight : ChatCheck(T)
    \/ \E T \in InFlight : ChatBranch(T)
    \/ \E T \in InFlight : FindCheck(T)
    \/ \E T \in InFlight : FpGetUser(T)
    \/ \E T \in InFlight : FpPrem(T)
    \/ \E T \in InFlight : FpScan(T)
    \/ \E T \in InFlight : L1Get(T)
    \/ \E T \in InFlight : L1Chk(T)
    \/ \E T \in InFlight : L2Chk(T)
    \/ \E T \in InFlight : StartChat(T)

\* checkPremiumStatus clears the flag of a lapsed premium
ResumeLapsed ==
    \/ \E T \in InFlight : ChatSave(T)
    \/ \E T \in InFlight : FpSave(T)

ResumeAdmin == \E T \in InFlight : BanEnd(T)

Resume == ResumeMatch \/ ResumeLapsed \/ ResumeAdmin

NoneInFlight == tasks = EmptyBag

\* every handler runs to completion before the next update is dispatched
InvokeAtomic ==
    \/ \E u \in Users : NoneInFlight /\ ChatCmd(u)
    \/ \E u \in Users, pref \in Prefs : NoneInFlight /\ FindCallback(u, pref)
    \/ \E u \in Users : NoneInFlight /\ StopCmd(u)
    \/ \E u \in Users : NoneInFlight /\ GrantPremium(u)
    \/ \E u \in Users : NoneInFlight /\ PremiumExpires(u)
    \/ \E u \in Users : NoneInFlight /\ CancelPremiumCmd(u)
    \/ \E u \in Users : NoneInFlight /\ BanCmd(u)
    \/ \E u \in Users : NoneInFlight /\ UnbanCmd(u)
    \/ \E u \in Users : NoneInFlight /\ EndChatCmd(u)

NextAtomic == InvokeAtomic \/ Resume

SpecAtomic == Init /\ [][NextAtomic]_vars

\* match requests and stops interleaving at their awaits, with premium users
NextMatch ==
    \/ InvokeMatch
    \/ ResumeMatch
    \/ \E u \in PremiumUsers : GrantPremium(u)

SpecMatch == Init /\ [][NextMatch]_vars

----
\* message relay within a session

\* the users that send messages
Senders == {1}

\* users 1 and 2 have been matched with each other, user 3 has registered
InitPaired ==
    /\ activeChats = [u \in Users |-> IF u = 1 THEN 2 ELSE IF u = 2 THEN 1 ELSE None]
    /\ waitingQueue = <<>>
    /\ isActive = [u \in Users |-> TRUE]
    /\ isPremium = [u \in Users |-> FALSE]
    /\ premiumExpire = [u \in Users |-> NoDate]
    /\ keyboard = {}
    /\ tasks = EmptyBag
    /\ out = NoOut
    /\ safeMode = [u \in Users |-> TRUE]
    /\ NewStore

\* media messages of one sender, handled as they arrive, while time passes
NextFlood ==
    \/ \E u \in Senders : RelayMsg(u, NoText)
    \/ Tick
    \/ \E T \in InFlight : RelayUser(T)
    \/ \E T \in InFlight : RelayPartner(T)
    \/ \E T \in InFlight : RelayGate(T)
    \/ \E T \in InFlight : RelayBanned(T)
    \/ \E T \in InFlight, delivered \in BOOLEAN : RelaySend(T, delivered)
    \/ \E T \in InFlight : RelayCatch(T)

SpecFlood == InitPaired /\ [][NextFlood]_vars

\* a burst of text messages of one sender, handled as they arrive
NextContent ==
    \/ \E u \in Senders, text \in TextSet :
          /\ Len(received[u].texts) < MaxTexts
          /\ RelayMsg(u, text)
    \/ \E T \in InFlight : RelayUser(T)
    \/ \E T \in InFlight : RelayPartner(T)
    \/ \E T \in InFlight : RelayGate(T)
    \/ \E T \in InFlight : RelayBad(T)
    \/ \E T \in InFlight : RelayLink(T)
    \/ \E T \in InFlight : RelayBanned(T)
    \/ \E T \in InFlight, delivered \in BOOLEAN : RelaySend(T, delivered)
    \/ \E T \in InFlight : RelayCatch(T)

SpecContent == InitPaired /\ [][NextContent]_vars

\* as InitPaired, after user 1 has sent the clean text PriorRepeats times
InitRepeat ==
    /\ activeChats = [u \in Users |-> IF u = 1 THEN 2 ELSE IF u = 2 THEN 1 ELSE None]
    /\ waitingQueue = <<>>
    /\ isActive = [u \in Users |-> TRUE]
    /\ isPremium = [u \in Users |-> FALSE]
    /\ premiumExpire = [u \in Users |-> NoDate]
    /\ keyboard = {}
    /\ tasks = EmptyBag
    /\ out = NoOut
    /\ clock = 0
    /\ safeMode = [u \in Users |-> TRUE]
    /\ floodMessages = [u \in Users |-> <<>>]
    /\ badWordCount = [u \in Users |-> 0]
    /\ linkSpamCount = [u \in Users |-> 0]
    /\ repeatSpamCount = [u \in Users |-> 0]
    /\ lastMessages = [u \in Users |-> IF u = 1 THEN Rep(Texts[1], PriorRepeats) ELSE <<>>]
    /\ warnings = [u \in Users |-> 0]
    /\ received = [u \in Users |->
                     [at |-> <<>>, bad |-> 0, links |-> 0,
                      texts |-> IF u = 1 THEN Rep(Texts[1], PriorRepeats) ELSE <<>>]]
    /\ reports = [u \in Users |-> {}]
    /\ recent = [u \in Users |-> {}]
    /\ reportCount = [u \in Users |-> 0]
    /\ asked = 0
    /\ invoice = [u \in Users |-> None]
    /\ tiers = NoTiers

\* the same text again and again, handled as it arrives
NextRepeat ==
    \/ \E u \in Senders :
          /\ Len(received[u].texts) < PriorRepeats + MaxTexts
          /\ RelayMsg(u, Texts[1])
    \/ \E T \in InFlight : RelayUser(T)
    \/ \E T \in InFlight : RelayPartner(T)
    \/ \E T \in InFlight : RelayGate(T)
    \/ \E T \in InFlight : RelayRep(T)
    \/ \E T \in InFlight : RelayBanned(T)
    \/ \E T \in InFlight, delivered \in BOOLEAN : RelaySend(T, delivered)
    \/ \E T \in InFlight : RelayCatch(T)

SpecRepeat == InitRepeat /\ [][NextRepeat]_vars

\* the messages a burst may still take: texts while fewer than MaxBurst have
\* been taken up, media of a sender that is not premium likewise, media of
\* a premium sender without limit
InBurst(u, text) ==
    IF text = NoText
    THEN isPremium[u] \/ Len(received[u].at) < MaxBurst
    ELSE Len(received[u].texts) < MaxBurst

\* messages of a sender that is granted premium at some point
NextPremium ==
    \/ \E u \in Senders, text \in {NoText, Texts[1], Texts[2]} :
          InBurst(u, text) /\ RelayMsg(u, text)
    \/ \E T \in InFlight : RelayUser(T)
    \/ \E T \in InFlight : RelayPartner(T)
    \/ \E T \in InFlight : RelayGate(T)
    \/ \E T \in InFlight : RelayBad(T)
    \/ \E T \in InFlight : RelayBanned(T)
    \/ \E T \in InFlight, delivered \in BOOLEAN : RelaySend(T, delivered)
    \/ \E T \in InFlight : RelayCatch(T)
    \/ \E u \in Senders : GrantPremium(u)

\* as InitPaired, with user 2 having left safe mode on or switched it off
InitPremium ==
    /\ activeChats = [u \in Users |-> IF u = 1 THEN 2 ELSE IF u = 2 THEN 1 ELSE None]
    /\ waitingQueue = <<>>
    /\ isActive = [u \in Users |-> TRUE]
    /\ isPremium = [u \in Users |-> FALSE]
    /\ premiumExpire = [u \in Users |-> NoDate]
    /\ keyboard = {}
    /\ tasks = EmptyBag
    /\ out = NoOut
    /\ \E off \in BOOLEAN : safeMode = [u \in Users |-> ~(off /\ u = 2)]
    /\ NewStore

SpecPremium == InitPremium /\ [][NextPremium]_vars

\* the users the admin warns: the sender and the partner
Warned == {1, 2}

\* the admin warns a user in a session whose premium comes and goes, while
\* the user sends a burst of messages
NextWarn ==
    \/ \E u \in Warned : WarnCmd(u)
    \/ \E T \in InFlight : WarnFind(T)
    \/ \E T \in InFlight : WarnEnd(T)
    \/ \E u \in Senders : GrantPremium(u)
    \/ \E u \in Senders : PremiumExpires(u)
    \/ \E u \in Senders : CancelPremiumCmd(u)
    \/ \E u \in Senders : Len(received[u].at) < MaxTexts /\ RelayMsg(u, Texts[3])
    \/ \E T \in InFlight : RelayUser(T)
    \/ \E T \in InFlight : RelayPartner(T)
    \/ \E T \in InFlight : RelayGate(T)
    \/ \E T \in InFlight : RelayBad(T)
    \/ \E T \in InFlight : RelayBanned(T)
    \/ \E T \in InFlight, delivered \in BOOLEAN : RelaySend(T, delivered)
    \/ \E T \in InFlight : RelayCatch(T)

SpecWarn == InitPaired /\ [][NextWarn]_vars

\* reports about a user in a session
NextReport ==
    \/ \E r \in Reporters, u \in Senders : ReportCallback(r, u)
    \/ \E T \in InFlight : ReportFind(T)
    \/ \E T \in InFlight : ReportExisting(T)
    \/ \E T \in InFlight : ReportSaved(T)
    \/ \E T \in InFlight : ReportDistinct(T)
    \/ \E T \in InFlight : ReportCounted(T)
    \/ \E T \in InFlight : ReportCheck(T)
    \/ \E T \in InFlight : ReportBanned(T)
    \/ \E u \in Senders : WeekPasses(u)

SpecReport == InitPaired /\ [][NextReport]_vars

\* as InitPaired, with users 1 and 2 each having left safe mode on or
\* switched it off
InitMedia ==
    /\ activeChats = [u \in Users |-> IF u = 1 THEN 2 ELSE IF u = 2 THEN 1 ELSE None]
    /\ waitingQueue = <<>>
    /\ isActive = [u \in Users |-> TRUE]
    /\ isPremium = [u \in Users |-> FALSE]
    /\ premiumExpire = [u \in Users |-> NoDate]
    /\ keyboard = {}
    /\ tasks = EmptyBag
    /\ out = NoOut
    /\ \E off \in SUBSET {1, 2} : safeMode = [u \in Users |-> u \notin off]
    /\ NewStore

\* messages without text, of every kind, between the two users
NextMedia ==
    \/ \E u \in {1, 2} : Len(received[u].at) < MaxBurst /\ RelayMsg(u, NoText)
    \/ \E u \in {1, 2} : Len(received[u].at) < MaxBurst /\ RelayOther(u)
    \/ \E T \in InFlight : RelayUser(T)
    \/ \E T \in InFlight : RelayPartner(T)
    \/ \E T \in InFlight : RelayGate(T)
    \/ \E T \in InFlight, delivered \in BOOLEAN : RelaySend(T, delivered)
    \/ \E T \in InFlight : RelayCatch(T)

SpecMedia == InitMedia /\ [][NextMedia]_vars

\* identity reveal purchases in a session that either side may stop
NextReveal ==
    \/ \E u \in {1, 2} : SendGift(u)
    \/ \E u \in {1, 2} : RevealPaid(u)
    \/ \E T \in InFlight : RevealUser(T)
    \/ \E T \in InFlight : RevealPartner(T)
    \/ \E u \in {1, 2} : StopCmd(u)

SpecReveal == InitPaired /\ [][NextReveal]_vars

\* media messages in a session whose sends may fail, and match requests
NextGhost ==
    \/ \E u \in Senders : Len(received[u].at) < MaxBurst /\ RelayMsg(u, NoText)
    \/ \E T \in InFlight : RelayUser(T)
    \/ \E T \in InFlight : RelayPartner(T)
    \/ \E T \in InFlight : RelayGate(T)
    \/ \E T \in InFlight, delivered \in BOOLEAN : RelaySend(T, delivered)
    \/ \E T \in InFlight : RelayCatch(T)
    \/ \E u \in Users : ChatCmd(u)
    \/ \E T \in InFlight : ChatCheck(T)
    \/ \E T \in InFlight : ChatBranch(T)
    \/ \E T \in InFlight : FpGetUser(T)
    \/ \E T \in InFlight : FpPrem(T)
    \/ \E T \in InFlight : FpScan(T)
    \/ \E T \in InFlight : StartChat(T)

SpecGhost == InitPaired /\ [][NextGhost]_vars

TypeOK ==
    /\ activeChats \in [Users -> Users \cup {None}]
    /\ \A i \in 1..Len(waitingQueue) : waitingQueue[i].id \in Users
    /\ \A T \in InFlight : T.pos \in 0..Len(waitingQueue)
    /\ BagCardinality(tasks) <= MaxTasks


----
\* a stop that overtakes the user's own match request

\* user 1 has sent /chat and then /stop: the stop has run, the /chat handler
\* is at its first await
InitStopped ==
    /\ activeChats = [u \in Users |-> None]
    /\ waitingQueue = <<>>
    /\ isActive = [u \in Users |-> TRUE]
    /\ isPremium = [u \in Users |-> FALSE]
    /\ premiumExpire = [u \in Users |-> NoDate]
    /\ keyboard = {}
    /\ safeMode = [u \in Users |-> TRUE]
    /\ NewStore
    /\ tasks = SetToBag({Fetch(Task("chat_check", 1), "chat_check")})
    /\ out = Signal(1, "NoActiveSession", None)

\* user 1 issues no further match request; the others request and stop
NextStopped ==
    \/ \E u \in Users \ {1} : ChatCmd(u)
    \/ \E u \in Users : StopCmd(u)
    \/ \E T \in InFlight : ChatCheck(T)
    \/ \E T \in InFlight : ChatBranch(T)
    \/ \E T \in InFlight : FpGetUser(T)
    \/ \E T \in InFlight : FpPrem(T)
    \/ \E T \in InFlight : FpScan(T)
    \/ \E T \in InFlight : StartChat(T)

SpecStopped == InitStopped /\ [][NextStopped]_vars

----
\* the two abuse windows of a sender over messages, bans and unbans

\* a second clean text
OtherText == Rep("yo", 1)

\* the repeat window of user 1 after PriorOthers messages of the other text,
\* as far as the window has room for them,
\* and then PriorRepeats of the clean one
PriorWindow ==
    LET room == RepeatWindow - PriorRepeats
    IN  Rep(OtherText, IF PriorOthers <= room THEN PriorOthers ELSE room)
            \o Rep(Texts[1], PriorRepeats)

\* as InitPaired, after user 1 has sent the messages of PriorWindow, the
\* last of them one flood span ago
InitWindows ==
    /\ activeChats = [u \in Users |-> IF u = 1 THEN 2 ELSE IF u = 2 THEN 1 ELSE None]
    /\ waitingQueue = <<>>
    /\ isActive = [u \in Users |-> TRUE]
    /\ isPremium = [u \in Users |-> FALSE]
    /\ premiumExpire = [u \in Users |-> NoDate]
    /\ keyboard = {}
    /\ tasks = EmptyBag
    /\ out = NoOut
    /\ clock = 0
    /\ safeMode = [u \in Users |-> TRUE]
    /\ floodMessages = [u \in Users |-> IF u = 1 THEN <<0 - FloodSpan>> ELSE <<>>]
    /\ badWordCount = [u \in Users |-> 0]
    /\ linkSpamCount = [u \in Users |-> 0]
    /\ repeatSpamCount = [u \in Users |-> 0]
    /\ lastMessages = [u \in Users |-> IF u = 1 THEN PriorWindow ELSE <<>>]
    /\ warnings = [u \in Users |-> 0]
    /\ received = [u \in Users |->
                     [at |-> <<>>, bad |-> 0, links |-> 0,
                      texts |-> IF u = 1 THEN PriorWindow ELSE <<>>]]
    /\ reports = [u \in Users |-> {}]
    /\ recent = [u \in Users |-> {}]
    /\ reportCount = [u \in Users |-> 0]
    /\ asked = 0
    /\ invoice = [u \in Users |-> None]
    /\ tiers = NoTiers

\* the clean text again, up to WindowBurst times within a flood span,
\* handled as it arrives while time passes; a ban is
\* lifted by the admin and users 1 and 2 ask for a match when without a partner
NextWindows ==
    \/ \E u \in Senders :
          Len(Recent(received[u].at, clock)) < WindowBurst /\ RelayMsg(u, Texts[1])
    \/ Tick
    \/ \E T \in InFlight : RelayUser(T)
    \/ \E T \in InFlight : RelayPartner(T)
    \/ \E T \in InFlight : RelayGate(T)
    \/ \E T \in InFlight : RelayRep(T)
    \/ \E T \in InFlight : RelayBanned(T)
    \/ \E T \in InFlight, delivered \in BOOLEAN : RelaySend(T, delivered)
    \/ \E T \in InFlight : RelayCatch(T)
    \/ \E u \in Senders : UnbanCmd(u)
    \/ \E u \in {1, 2} : activeChats[u] = None /\ tasks = EmptyBag /\ ChatCmd(u)
    \/ \E T \in InFlight : ChatCheck(T)
    \/ \E T \in InFlight : ChatBranch(T)
    \/ \E T \in InFlight : FpGetUser(T)
    \/ \E T \in InFlight : FpPrem(T)
    \/ \E T \in InFlight : FpScan(T)
    \/ \E T \in InFlight : StartChat(T)

SpecWindows == InitWindows /\ [][NextWindows]_vars

----
\* the waiting pool next to a two-tier pool: a FIFO of the ids queued as
\* premium and a FIFO of the ids queued as regular, searched premium first

Lowest(S) == CHOOSE i \in S : \A j \in S : i <= j

\* a findPartner whose scan for a requester without a preference passes over
\* the entries queued with a preference for the other gender
FindPartnerAsked(q, userId, pref, premium) ==
    LET q0 == QueueDelete(q, userId)
        c0 == {i \in 1..Len(q0) : q0[i].gender \in {"any", Gender(userId)}}
        c1 == {i \in 1..Len(q0) : Tier1Match(q0[i].id, isPremium[q0[i].id], pref)}
        c2 == {i \in 1..Len(q0) : Tier2Match(q0[i].id, pref)}
        partnerId == IF premium /\ pref # "none"
                     THEN IF c1 # {} THEN q0[Lowest(c1)].id
                          ELSE IF c2 # {} THEN q0[Lowest(c2)].id ELSE None
                     ELSE IF c0 # {} THEN q0[Lowest(c0)].id ELSE None
        e == Entry(userId, pref, premium)
    IN  IF partnerId # None
        THEN [partner |-> partnerId, queue |-> QueueDelete(q0, partnerId)]
        ELSE [partner |-> None,
              queue |-> IF premium THEN QueueRebuild(q0, e) ELSE QueueSet(q0, e)]

\* findPartner run to completion on the pool q: the partner it returns and
\* the pool it leaves
FindPartner(q, userId, pref, premium) ==
    LET q0 == QueueDelete(q, userId)
        c1 == {i \in 1..Len(q0) : Tier1Match(q0[i].id, isPremium[q0[i].id], pref)}
        c2 == {i \in 1..Len(q0) : Tier2Match(q0[i].id, pref)}
        partnerId == IF premium /\ pref # "none"
                     THEN IF c1 # {} THEN q0[Lowest(c1)].id
                          ELSE IF c2 # {} THEN q0[Lowest(c2)].id ELSE None
                     ELSE FirstOther(q0, userId)
        e == Entry(userId, pref, premium)
    IN  IF partnerId # None
        THEN [partner |-> partnerId, queue |-> QueueDelete(q0, partnerId)]
        ELSE [partner |-> None,
              queue |-> IF premium THEN QueueRebuild(q0, e) ELSE QueueSet(q0, e)]

TierWithout(t, u) ==
    [t EXCEPT !.premium = SelectSeq(@, LAMBDA x : x # u),
              !.regular = SelectSeq(@, LAMBDA x : x # u)]

\* the same request put to the two-tier pool
TierRequest(t, userId, pref, premium) ==
    LET t0 == TierWithout(t, userId)
        order == t0.premium \o t0.regular
        c1 == {i \in 1..Len(t0.premium) : Gender(t0.premium[i]) = pref}
        c2 == {i \in 1..Len(order) : Gender(order[i]) = pref}
        partnerId == IF premium /\ pref # "none"
                     THEN IF c1 # {} THEN t0.premium[Lowest(c1)]
                          ELSE IF c2 # {} THEN order[Lowest(c2)] ELSE None
                     ELSE IF order # <<>> THEN order[1] ELSE None
    IN  IF partnerId # None
        THEN [TierWithout(t0, partnerId) EXCEPT !.out = Signal(userId, "Matched", partnerId)]
        ELSE [premium |-> IF premium THEN Append(t0.premium, userId) ELSE t0.premium,
              regular |-> IF premium THEN t0.regular ELSE Append(t0.regular, userId),
              out |-> Signal(userId, "Waiting", None)]

\* a match request of u handled in one piece: /chat of a user that is not
\* premium, a find_* button of a premium user
RequestMatch(u, pref) ==
    LET premium == isPremium[u]
        r == FindPartner(waitingQueue, u, pref, premium)
    IN  /\ activeChats[u] = None
        /\ pref # "none" => premium
        /\ IF r.partner # None
           THEN /\ activeChats' = StartChatMap(activeChats, u, r.partner)
                /\ waitingQueue' = QueueDelete(QueueDelete(r.queue, u), r.partner)
                /\ out' = Signal(u, "Matched", r.partner)
           ELSE /\ activeChats' = activeChats
                /\ waitingQueue' = r.queue
                /\ out' = Signal(u, "Waiting", None)
        /\ tiers' = TierRequest(tiers, u, pref, premium)
        /\ UNCHANGED <<isActive, isPremium, premiumExpire, keyboard, tasks, abuseVars,
                       reportVars, invoice>>

\* /stop of u, put to both pools
StopBoth(u) ==
    /\ activeChats' = EndChat(activeChats, u)
    /\ waitingQueue' = QueueDelete(waitingQueue, u)
    /\ out' = Signal(u, IF activeChats[u] # None THEN "ChatEnded" ELSE "NoActiveSession",
                     activeChats[u])
    /\ tiers' = [TierWithout(tiers, u) EXCEPT !.out = out']
    /\ UNCHANGED <<isActive, isPremium, premiumExpire, keyboard, tasks, abuseVars,
                   reportVars, invoice>>

\* match requests and stops, one at a time; premium is granted to users
\* that are not waiting
NextTiers ==
    \/ \E u \in Users, pref \in Prefs : RequestMatch(u, pref)
    \/ \E u \in Users : StopBoth(u)
    \/ \E u \in PremiumUsers : ~InQueue(waitingQueue, u) /\ GrantPremium(u)

SpecTiers == Init /\ [][NextTiers]_vars

----
\* messages of user 1 while either side stops and asks for a new match
NextDeliver ==
    \/ \E u \in Senders : Len(received[u].at) < MaxBurst /\ RelayMsg(u, Texts[1])
    \/ \E T \in InFlight : RelayUser(T)
    \/ \E T \in InFlight : RelayPartner(T)
    \/ \E T \in InFlight : RelayGate(T)
    \/ \E T \in InFlight, delivered \in BOOLEAN : RelaySend(T, delivered)
    \/ \E T \in InFlight : RelayCatch(T)
    \/ \E u \in Users : StopCmd(u)
    \/ \E u \in Users : ChatCmd(u)
    \/ \E T \in InFlight : ChatCheck(T)
    \/ \E T \in InFlight : ChatBranch(T)
    \/ \E T \in InFlight : FpGetUser(T)
    \/ \E T \in InFlight : FpPrem(T)
    \/ \E T \in InFlight : FpScan(T)
    \/ \E T \in InFlight : StartChat(T)

SpecDeliver == InitPaired /\ [][NextDeliver]_vars

----
\* reports after the report total has been reset

\* ReportLimit reporters have reported user 1, who has been banned for it and
\* has lost the session; the repeaters' reports are less than a week old
InitReported ==
    /\ activeChats = [u \in Users |-> None]
    /\ waitingQueue = <<>>
    /\ isActive = [u \in Users |-> u # 1]
    /\ isPremium = [u \in Users |-> FALSE]
    /\ premiumExpire = [u \in Users |-> NoDate]
    /\ keyboard = {}
    /\ tasks = EmptyBag
    /\ out = Signal(1, "AutoBanned", 2)
    /\ clock = 0
    /\ safeMode = [u \in Users |-> TRUE]
    /\ floodMessages = [u \in Users |-> <<>>]
    /\ badWordCount = [u \in Users |-> 0]
    /\ linkSpamCount = [u \in Users |-> 0]
    /\ repeatSpamCount = [u \in Users |-> 0]
    /\ lastMessages = [u \in Users |-> <<>>]
    /\ warnings = [u \in Users |-> 0]
    /\ received = [u \in Users |-> [at |-> <<>>, bad |-> 0, links |-> 0, texts |-> <<>>]]
    /\ reports = [u \in Users |-> IF u = 1 THEN 1..ReportLimit ELSE {}]
    /\ recent = [u \in Users |-> IF u = 1 THEN Repeaters ELSE {}]
    /\ reportCount = [u \in Users |-> IF u = 1 THEN ReportLimit ELSE 0]
    /\ asked = ReportLimit
    /\ invoice = [u \in Users |-> None]
    /\ tiers = NoTiers

\* the admin unbans user 1 or resets the reports; further reports come in
NextReset ==
    \/ \E u \in Senders : UnbanCmd(u)
    \/ \E u \in Senders : ResetReports(u)
    \/ \E r \in Reporters, u \in Senders : ReportCallback(r, u)
    \/ \E T \in InFlight : ReportFind(T)
    \/ \E T \in InFlight : ReportExisting(T)
    \/ \E T \in InFlight : ReportSaved(T)
    \/ \E T \in InFlight : ReportDistinct(T)
    \/ \E T \in InFlight : ReportCounted(T)
    \/ \E T \in InFlight : ReportCheck(T)
    \/ \E T \in InFlight : ReportBanned(T)
    \/ \E u \in Senders : WeekPasses(u)

SpecReset == InitReported /\ [][NextReset]_vars

----
\* a user that waits while the others ask for matches and stop

\* user 1 has asked for a match and waits; user 2 is premium and has the
\* gender keyboard of /chat on the screen
InitWaiting ==
    /\ activeChats = [u \in Users |-> None]
    /\ waitingQueue = <<Entry(1, "none", FALSE)>>
    /\ isActive = [u \in Users |-> TRUE]
    /\ isPremium = [u \in Users |-> u = 2]
    /\ premiumExpire = [u \in Users |-> IF u = 2 THEN Future ELSE NoDate]
    /\ keyboard = {2}
    /\ tasks = EmptyBag
    /\ out = Signal(1, "Waiting", None)
    /\ safeMode = [u \in Users |-> TRUE]
    /\ NewStore

\* no handler of u is suspended
NoHandler(u) == \A T \in InFlight : T.user # u

\* the steps of the suspended handlers of u: each runs when the promise it
\* awaits resolves
Continues(u) ==
    \E T \in InFlight :
        /\ T.user = u
        /\ \/ ChatCheck(T) \/ ChatBranch(T) \/ FindCheck(T) \/ FpGetUser(T) \/ FpPrem(T)
           \/ FpScan(T) \/ L1Get(T) \/ L1Chk(T) \/ L2Chk(T) \/ StartChat(T)

\* user 1 sends nothing more; user 3 sends /chat and /stop, user 2 presses
\* the find_* buttons and sends /stop
NextWaiting ==
    \/ NoHandler(3) /\ ChatCmd(3)
    \/ \E pref \in Prefs : NoHandler(2) /\ FindCallback(2, pref)
    \/ \E u \in {2, 3} : NoHandler(u) /\ StopCmd(u)
    \/ \E T \in InFlight : ChatCheck(T)
    \/ \E T \in InFlight : ChatBranch(T)
    \/ \E T \in InFlight : FindCheck(T)
    \/ \E T \in InFlight : FpGetUser(T)
    \/ \E T \in InFlight : FpPrem(T)
    \/ \E T \in InFlight : FpScan(T)
    \/ \E T \in InFlight : L1Get(T)
    \/ \E T \in InFlight : L1Chk(T)
    \/ \E T \in InFlight : L2Chk(T)
    \/ \E T \in InFlight : StartChat(T)

SpecWaiting == InitWaiting /\ [][NextWaiting]_vars

\* the event loop runs every continuation whose promise has resolved
SpecFair == SpecWaiting /\ \A u \in Users : WF_vars(Continues(u))
----
\* Properties

Paired(u) == activeChats[u] # None

Waiting(u) == \E i \in 1..Len(waitingQueue) : waitingQueue[i].id = u

\* the handler T takes the step: one copy of it leaves the bag, other than by
\* having its document marked out of date or its expiry marked as passed
Steps(T) ==
    LET V == {[T EXCEPT !.stale = s, !.uExpire = e] :
                 s \in {T.stale, TRUE},
                 e \in {T.uExpire} \cup (IF T.uExpire = Future THEN {Past} ELSE {})} \ {T}
        Gain(S) == IF CopiesIn(S, tasks') > CopiesIn(S, tasks)
                   THEN CopiesIn(S, tasks') - CopiesIn(S, tasks) ELSE 0
        marked == Copies([S \in V |-> Gain(S)], V)
    IN  CopiesIn(T, tasks) - CopiesIn(T, tasks') > marked

\* the task of the handler just before it calls startChat
Selected(T) == T.pc = "start"

\* C1: no user is paired and waiting at once, and no user is the partner of
\* two different users
Exclusivity ==
    /\ \A u \in Users : ~(Paired(u) /\ Waiting(u))
    /\ \A v, w \in Users : (Paired(v) /\ activeChats[v] = activeChats[w]) => v = w

\* C2: the partner of the partner of a paired user is that user
Symmetry ==
    \A u \in Users : Paired(u) => activeChats[activeChats[u]] = u

\* C3: a waiting entry is selected by at most one match request, and a
\* selected candidate has no partner until startChat records the pairing
NoDoubleDequeue ==
    \A T \in InFlight : Selected(T) =>
        /\ CopiesIn(T, tasks) = 1
        /\ \A T2 \in InFlight : (Selected(T2) /\ T2 # T) => T2.partner # T.partner
        /\ ~Paired(T.partner)

\* C4: startChat for a pair of which one already has a partner leaves the
\* session table as it is
StartNeverOverwrites ==
    [][\A T \in InFlight :
          (Selected(T) /\ Steps(T) /\ (Paired(T.user) \/ Paired(T.partner)))
              => activeChats' = activeChats]_vars

\* C5: whenever no handler is in progress, no banned user is paired
BannedNeverPaired ==
    NoneInFlight => \A u \in Users : ~isActive[u] => ~Paired(u)

\* C6: a match request of a banned user, from /chat or from a find_* button,
\* is answered Banned and changes neither the pool nor the session table
BannedRejected ==
    [][\A T \in InFlight :
          (T.pc \in {"chat_check", "find_check"} /\ Steps(T)
              /\ ~isActive[T.user] /\ ~Paired(T.user))
              => /\ out' = Signal(T.user, "Banned", None)
                 /\ UNCHANGED <<activeChats, waitingQueue>>]_vars

\* C7: a match request of a user that has a partner, from /chat or from a
\* find_* button, is answered AlreadyInSession and changes neither the
\* session table nor the pool
PairedRejected ==
    [][\A T \in InFlight :
          (T.pc \in {"chat_check", "find_check"} /\ Steps(T) /\ Paired(T.user))
              => /\ out' = Signal(T.user, "AlreadyInSession", None)
                 /\ UNCHANGED <<activeChats, waitingQueue>>]_vars

PairedRejectedSeen ==
    /\ out.sig = "AlreadyInSession"
    /\ Paired(out.user)
    /\ waitingQueue # <<>>

Least(S) == CHOOSE i \in S : \A j \in S : i <= j

\* the candidate policy 5a prescribes for requester u preferring gender g
Policy5a(u, g) ==
    LET others == {i \in 1..Len(waitingQueue) :
                      waitingQueue[i].id # u /\ Gender(waitingQueue[i].id) = g}
        premium == {i \in others : isPremium[waitingQueue[i].id]}
    IN  IF premium # {} THEN waitingQueue[Least(premium)].id
        ELSE IF others # {} THEN waitingQueue[Least(others)].id
        ELSE None

\* the candidate policy 5b prescribes for requester u
Policy5b(u) ==
    LET others == {i \in 1..Len(waitingQueue) : waitingQueue[i].id # u}
    IN  IF others # {} THEN waitingQueue[Least(others)].id ELSE None

\* what findPartner returns in this step of handler T: the partner it
\* selected, or None when it queued the requester
Returns(T, p) ==
    /\ Steps(T)
    /\ IF p = None
       THEN out' = Signal(T.user, "Waiting", None)
       ELSE \E T2 \in BagToSet(tasks') :
               Selected(T2) /\ T2.user = T.user /\ T2.partner = p
                   /\ CopiesIn(T2, tasks') > CopiesIn(T2, tasks)

Scanning(T) == T.pc \in {"fp_scan", "l1_chk", "l2_chk"}

\* C8: a requester found to have active premium, preferring gender g, gets
\* the first waiting premium user of gender g, else the first waiting user
\* of gender g, else is queued
PremiumGenderPolicy ==
    [][\A T \in InFlight : \A p \in Users \cup {None} :
          (Scanning(T) /\ T.prem /\ T.pref # "none" /\ Returns(T, p))
              => p = Policy5a(T.user, T.pref)]_vars

\* C9: a requester that is not premium, or that states no preference, gets
\* the first entry of the pool other than itself, and is queued only when
\* there is none
NonPreferentialPolicy ==
    [][\A T \in InFlight : \A p \in Users \cup {None} :
          (T.pc = "fp_scan" /\ (~T.prem \/ T.pref = "none") /\ Returns(T, p))
              => p = Policy5b(T.user)]_vars

\* a requester without premium was given the first of several waiting users
NonPreferentialPolicySeen ==
    \E T \in InFlight :
        /\ Selected(T)
        /\ ~isPremium[T.user]
        /\ waitingQueue # <<>>
        /\ \A i \in 1..Len(waitingQueue) : waitingQueue[i].id # T.user

\* C10: every entry queued as premium precedes every entry queued as regular
PremiumFirst ==
    \A i, j \in 1..Len(waitingQueue) :
        (i < j /\ waitingQueue[j].isPremium) => waitingQueue[i].isPremium

\* the handler T queues its requester in this step
Queues(T) == Steps(T) /\ Scanning(T) /\ out' = Signal(T.user, "Waiting", None)

PlaceOf(q, id) == CHOOSE i \in 1..Len(q) : q[i].id = id

\* C11: the pool keeps insertion order within the premium tier: a premium
\* requester that is queued is placed behind every premium entry that was
\* already waiting, so that of two eligible premium users the one queued
\* first is the one a later scan meets first
InsertionOrder ==
    [][\A T \in InFlight :
          (Queues(T) /\ T.prem)
              => \A i \in 1..Len(waitingQueue) :
                    (waitingQueue[i].isPremium /\ waitingQueue[i].id # T.user)
                        => PlaceOf(waitingQueue', waitingQueue[i].id)
                               < PlaceOf(waitingQueue', T.user)]_vars

\* C12: a step that signals Matched(p) leaves requester and p out of the
\* pool and partners of each other; a step that signals Waiting leaves the
\* requester in the pool with its preference ('any' when none) and its
\* premium snapshot, and leaves the session table unchanged
RequestOutcome ==
    [][/\ out'.sig = "Matched" =>
             /\ \A i \in 1..Len(waitingQueue') :
                    waitingQueue'[i].id \notin {out'.user, out'.partner}
             /\ activeChats'[out'.user] = out'.partner
             /\ activeChats'[out'.partner] = out'.user
       /\ \A T \in InFlight :
             Queues(T) =>
                 /\ activeChats' = activeChats
                 /\ \E i \in 1..Len(waitingQueue') :
                        waitingQueue'[i] = [id |-> T.user,
                                            gender |-> IF T.pref = "none" THEN "any" ELSE T.pref,
                                            isPremium |-> T.prem]]_vars

StopSignals == {"ChatEnded", "NoActiveSession"}

\* the step is /stop of user u
Stops(u) == out'.user = u /\ out'.sig \in StopSignals

\* C13: in the state a /stop of u leaves behind, a further /stop of u
\* finds no partner to return and leaves the session table and the pool as
\* they are
StopTwice ==
    \A u \in Users :
        (out.user = u /\ out.sig \in StopSignals)
            => /\ activeChats[u] = None
               /\ EndChat(activeChats, u) = activeChats
               /\ QueueDelete(waitingQueue, u) = waitingQueue

\* a /stop was answered NoActiveSession while other users were paired and
\* waiting
StopTwiceSeen ==
    /\ out.sig = "NoActiveSession"
    /\ ~Paired(out.user) /\ ~Waiting(out.user)
    /\ \E v \in Users : Paired(v)
    /\ waitingQueue # <<>>

\* C14: /stop of u with partner p removes u->p and p->u and reports p;
\* it removes the pool entry of u; it changes no other user's mapping and
\* no other pool entry, and does not queue p
StopEffect ==
    [][\A u \in Users :
          Stops(u) =>
              LET p == activeChats[u]
              IN  /\ out'.partner = p
                  /\ out'.sig = IF p # None THEN "ChatEnded" ELSE "NoActiveSession"
                  /\ activeChats'[u] = None
                  /\ p # None => activeChats'[p] = None
                  /\ \A v \in Users \ {u, p} : activeChats'[v] = activeChats[v]
                  /\ waitingQueue' = SelectSeq(waitingQueue, LAMBDA e : e.id # u)]_vars

\* a paired user stopped while a third user was waiting: the pair is gone,
\* the pool entry is still there
StopEffectSeen ==
    /\ out.sig = "ChatEnded"
    /\ ~Paired(out.user) /\ ~Paired(out.partner)
    /\ ~Waiting(out.user)
    /\ \E v \in Users \ {out.user, out.partner} : Waiting(v)

AdminSignals == {"BannedByAdmin", "EndedByAdmin", "NotInChat"}

\* C15: when /ban of u or /endchat of u has run, u is neither a key of the
\* session table nor in the pool
AdminCleans ==
    \A u \in Users :
        (out.user = u /\ out.sig \in AdminSignals) => (~Paired(u) /\ ~Waiting(u))

\* the task that handler T becomes in this step
Becomes(T, T2) ==
    /\ Steps(T)
    /\ T2 \in BagToSet(tasks')
    /\ T2.user = T.user
    /\ CopiesIn(T2, tasks') > CopiesIn(T2, tasks)

\* C20: findPartner evaluates premium from the document it has just read,
\* as flag set and expiry not passed; a requester whose flag is set and
\* whose expiry has passed continues as not premium, has its flag cleared
\* in the store, is given the first other entry whatever its gender, and
\* when queued goes to the back with premium snapshot false
EffectivePremium ==
    [][\A T \in InFlight :
          /\ T.pc = "fp_prem" =>
                \A T2 \in BagToSet(tasks') :
                    Becomes(T, T2) =>
                        /\ T2.prem = (T.uPremium /\ T.uExpire # Past)
                        /\ (T.uPremium /\ T.uExpire = Past) => T2.pc = "fp_save"
          /\ (T.pc = "fp_save" /\ Steps(T)) =>
                /\ ~T.prem
                /\ ~isPremium'[T.user]
                /\ \A T2 \in BagToSet(tasks') : Becomes(T, T2) => T2.pc = "fp_scan"
          /\ (T.pc = "fp_scan" /\ ~T.prem) =>
                /\ \A p \in Users \cup {None} :
                       Returns(T, p) => p = Policy5b(T.user)
                /\ Queues(T) =>
                       waitingQueue' =
                           Append(SelectSeq(waitingQueue, LAMBDA e : e.id # T.user),
                                  [id |-> T.user,
                                   gender |-> IF T.pref = "none" THEN "any" ELSE T.pref,
                                   isPremium |-> FALSE])]_vars

\* a requester whose premium had run out asked for a gender and was
\* queued: its entry is the last one and is not premium, its flag is cleared
EffectivePremiumSeen ==
    /\ out.sig = "Waiting"
    /\ premiumExpire[out.user] = Past
    /\ ~isPremium[out.user]
    /\ waitingQueue # <<>>
    /\ waitingQueue[Len(waitingQueue)].id = out.user
    /\ waitingQueue[Len(waitingQueue)].gender # "any"
    /\ ~waitingQueue[Len(waitingQueue)].isPremium

\* the handler T takes up its message in this step: it passes the
\* restriction gate with a document that is not premium
TakesUp(T) ==
    /\ T.pc = "relay_gate"
    /\ Steps(T)
    /\ T.uActive /\ T.pActive
    /\ ~T.uPremium

\* C16: of the messages a sender that is not premium has had taken up within
\* the flood span, the first 19 do not bring a flood ban and the 20th does;
\* the handler of the 20th sets the sender inactive, does not send, and ends
\* the session of the sender and the partner
FloodBan ==
    [][\A T \in InFlight :
          /\ TakesUp(T) =>
                IF Len(received'[T.user].at) >= FloodThreshold
                THEN /\ ~isActive'[T.user]
                     /\ \E T2 \in BagToSet(tasks') :
                           Becomes(T, T2) /\ T2.pc = "relay_banned"
                ELSE /\ isActive'[T.user] = isActive[T.user]
                     /\ \A T2 \in BagToSet(tasks') :
                           Becomes(T, T2) => T2.pc # "relay_banned"
          /\ (T.pc = "relay_banned" /\ Steps(T)) =>
                /\ out' = Signal(T.user, "AutoBanned", T.partner)
                /\ ~isActive'[T.user]
                /\ activeChats'[T.user] = None
                /\ activeChats'[T.partner] = None]_vars

\* how often text occurs in window w
Occurs(w, text) == Cardinality({i \in 1..Len(w) : w[i] = text})

\* C17: for a sender that is not premium, the check that follows a message
\* with bad words bans exactly when the bad words of the messages taken up
\* have reached 50 in total, the check that follows a message with links
\* bans exactly when their links have reached 20 in total, and the repeat
\* check bans exactly when the text occurs 15 times among the texts taken up
\* in the repeat window; no check looks at another rule's total
ContentBan ==
    [][\A T \in InFlight : \A T2 \in BagToSet(tasks') :
          (Becomes(T, T2) /\ ~T.uPremium) =>
              /\ T.pc = "relay_bad" =>
                    (T2.pc = "relay_banned" <=> received[T.user].bad >= BadWordLimit)
              /\ T.pc = "relay_link" =>
                    (T2.pc = "relay_banned" <=> received[T.user].links >= LinkLimit)
              /\ (T.pc \in {"relay_gate", "relay_bad", "relay_link"}
                     /\ T2.pc \in {"relay_rep", "relay_send"} /\ T.text # NoText) =>
                    (T2.pc = "relay_rep"
                        <=> Occurs(received'[T.user].texts, T.text) >= RepeatLimit)
              /\ T.pc = "relay_rep" => T2.pc = "relay_banned"]_vars


\* the abuse counters, the windows and the active flag of u are left as they
\* are
AbuseSame(u) ==
    /\ floodMessages'[u] = floodMessages[u]
    /\ badWordCount'[u] = badWordCount[u]
    /\ linkSpamCount'[u] = linkSpamCount[u]
    /\ repeatSpamCount'[u] = repeatSpamCount[u]
    /\ lastMessages'[u] = lastMessages[u]
    /\ isActive'[u] = isActive[u]

\* the handler T, whose document carries the premium flag, takes a step
\* past the restriction gate
PremiumStep(T) ==
    /\ T.uPremium
    /\ Steps(T)
    /\ \/ T.pc = "relay_gate" /\ T.uActive /\ T.pActive
       \/ T.pc = "relay_send"

PremiumImmune ==
    [][\A T \in InFlight :
          /\ (T.uPremium /\ T.pc \in {"relay_gate", "relay_bad", "relay_link", "relay_rep"}) =>
                \A T2 \in BagToSet(tasks') : Becomes(T, T2) => T2.pc # "relay_banned"
          /\ (T.pc = "warn_find" /\ Steps(T)
                 /\ PremiumActive(isPremium[T.user], premiumExpire[T.user])) =>
                /\ isActive'[T.user] = isActive[T.user]
                /\ \A T2 \in BagToSet(tasks') : Becomes(T, T2) => T2.pc # "warn_end"]_vars

\* C21: a handler skips the abuse tracking of its message (it goes from the
\* restriction gate straight to the send with nothing recorded on its
\* document) only when the premium of the document it read is active: flag
\* set and expiry not passed
ExpiredTracked ==
    [][\A T \in InFlight : \A T2 \in BagToSet(tasks') :
          (T.pc = "relay_gate" /\ T.uActive /\ T.pActive /\ Becomes(T, T2)
              /\ T2.pc = "relay_send" /\ T2.dirty = {}) =>
                PremiumActive(T.uPremium, T.uExpire)]_vars

\* the handlers of reports about u
Reporting(B, u) == {T \in BagToSet(B) : T.user = u /\ T.reporter # None}

\* C22: whenever no report about a user is being handled, the report total
\* of the user is the number of distinct reporters that have reported the
\* user; the check that follows a report bans a user that is not premium
\* exactly when 50 distinct reporters have reported the user; reports of one
\* and the same reporter count once
UniqueReporters ==
    [][\A u \in Users :
          /\ Reporting(tasks', u) = {} =>
                reportCount'[u] = Cardinality(reports'[u])
          /\ \A T \in Reporting(tasks, u) :
                (T.pc = "report_check" /\ Steps(T) /\ ~isPremium[u]) =>
                    (~isActive'[u] <=> Cardinality(reports[u]) >= ReportLimit)]_vars

\* C23: a message of a sender without a partner starts no handler and
\* changes nothing; a handler that finds the sender or the partner inactive
\* sends nothing on, records nothing, leaves neither the sender nor the
\* partner in the session table, and signals SessionEndedRestriction
GateRestricts ==
    [][/\ \A u \in Users :
            /\ out' = Signal(u, "Ignored", None) =>
                  /\ activeChats[u] = None
                  /\ UNCHANGED <<activeChats, waitingQueue, isActive, isPremium,
                                 premiumExpire, keyboard, tasks, abuseVars, reportVars>>
            /\ (\E T \in BagToSet(tasks') :
                    /\ T.pc = "relay_user" /\ T.user = u
                    /\ CopiesIn(T, tasks') > CopiesIn(T, tasks)) =>
                  activeChats[u] # None
       /\ \A T \in InFlight :
            (T.pc = "relay_gate" /\ Steps(T) /\ (~T.uActive \/ ~T.pActive)) =>
                /\ out' = Signal(T.user, "SessionEndedRestriction", T.partner)
                /\ activeChats'[T.user] = None
                /\ activeChats'[T.partner] = None
                /\ \A T2 \in BagToSet(tasks') : ~Becomes(T, T2)
                /\ UNCHANGED <<isActive, abuseVars>>]_vars

\* a handler has found the sender active and the partner inactive and has
\* ended their session
GateRestrictsSeen ==
    /\ out = Signal(1, "SessionEndedRestriction", 2)
    /\ isActive[1]
    /\ ~isActive[2]
    /\ warnings[1] = 0
    /\ activeChats[1] = None
    /\ activeChats[2] = None

\* C24: unless the send fails, a message without text is handed to the
\* partner exactly when the partner's safe mode is off: the outcome is
\* BlockedBySafeMode with the partner's safe mode on and Relayed with it off,
\* whatever the sender's own safe mode
SafeModeGate ==
    [][\A T \in InFlight :
          (T.pc = "relay_send" /\ Steps(T) /\ T.text = NoText) =>
              /\ T.pSafe = safeMode[T.partner]
              /\ out'.user = T.user
              /\ out'.sig \in {"SendFailed",
                               IF safeMode[T.partner] THEN "BlockedBySafeMode"
                                                      ELSE "Relayed"}]_vars

\* C25: identities are disclosed to u and p only while p is u's partner
RevealLivePair ==
    out.sig = "IdentityRevealed" => activeChats[out.user] = out.partner

\* the handler T learns in this step that its send to the partner failed
SendFails(T) ==
    /\ T.pc = "relay_send"
    /\ Steps(T)
    /\ out' = Signal(T.user, "SendFailed", T.partner)

PairedOnlyToIdle ==
    [][\A u \in Users :
          Paired(u) =>
              /\ ~Waiting(u)'
              /\ activeChats'[u] \in {None, activeChats[u]}]_vars

\* C28: user 1, whose stop has been processed and who issues no match
\* request after it, is in neither the session table nor the waiting pool
StoppedStaysIdle == ~Paired(1) /\ ~Waiting(1)

\* the state the stop of user 1 leaves behind while the /chat handler of
\* user 1 is at its first await
StopOvertakes ==
    /\ out = Signal(1, "NoActiveSession", None)
    /\ BagToSet(tasks) = {Fetch(Task("chat_check", 1), "chat_check")}
    /\ BagCardinality(tasks) = 1
    /\ \A u \in Users : ~Paired(u) /\ ~Waiting(u)
    /\ isPremium = [u \in Users |-> FALSE]
    /\ keyboard = {}

EntriesOf(q, u) == {i \in 1..Len(q) : q[i].id = u}

\* a user id appears at most once in the waiting pool
PoolUnique == \A u \in Users : Cardinality(EntriesOf(waitingQueue, u)) <= 1

\* C29: the step that queues a requester leaves exactly one entry for that
\* user in the pool, and the entry carries the preference and the premium
\* snapshot of the request that has just been queued
PoolEntryLatest ==
    [][\A T \in InFlight :
          Queues(T) =>
              /\ Cardinality(EntriesOf(waitingQueue', T.user)) = 1
              /\ \A i \in EntriesOf(waitingQueue', T.user) :
                    waitingQueue'[i] = Entry(T.user, T.pref, T.prem)]_vars

\* C30: no user is their own partner, and a match request never selects
\* the requester as the partner to start a session with
NoSelfMatch ==
    /\ \A u \in Users : activeChats[u] # u
    /\ \A T \in InFlight : Selected(T) => T.partner # T.user

\* a request of user 1 runs its loop over a pool that holds user 1's own
\* entry at the head: the loop has passed over it and visits user 2 behind it
NoSelfMatchSeen ==
    /\ Len(waitingQueue) = 2
    /\ waitingQueue[1].id = 1
    /\ waitingQueue[2].id = 2
    /\ \E T \in InFlight :
          T.user = 1 /\ T.pc = "l1_get" /\ T.pos = 2 /\ T.cur = 2

\* C31: the stored repeat window of every user holds at most RepeatWindow
\* texts, and every timestamp of the stored flood window is younger than
\* FloodSpan as of the newest one, the time of the message recorded last
BoundedWindows ==
    \A u \in Users :
        /\ Len(lastMessages[u]) <= RepeatWindow
        /\ \A i \in 1..Len(floodMessages[u]) :
              floodMessages[u][Len(floodMessages[u])] - floodMessages[u][i] < FloodSpan

\* user 1, banned for repeats and unbanned, has sent a further message: the
\* full repeat window has lost its three oldest texts, and the flood window
\* has lost every timestamp but the one of the last message
BoundedWindowsSeen ==
    /\ lastMessages[1] = Rep(OtherText, PriorOthers - 3) \o Rep(Texts[1], RepeatWindow - PriorOthers + 3)
    /\ floodMessages[1] = <<MaxClock>>
    /\ repeatSpamCount[1] >= RepeatLimit

\* C32: every match request is answered by the waiting pool as the two-tier
\* pool answers it: Matched with the same partner, or Waiting
SameOutcomes == out.sig \in {"Matched", "Waiting"} => tiers.out = out

Regulars(q) == {i \in 1..Len(q) : ~q[i].isPremium}

\* C33: with every handler run to completion the pool holds at most one
\* entry queued as not premium, and a requester served by the
\* non-preferential policy is queued only into a pool with no other entry
OneRegular ==
    [][/\ Cardinality(Regulars(waitingQueue')) <= 1
       /\ \A T \in InFlight :
             (Queues(T) /\ ~Preferential(T)) =>
                 /\ Len(waitingQueue') = 1
                 /\ waitingQueue'[1].id = T.user]_vars

\* a premium requester with a preference has just been queued ahead of the
\* one waiting user that was queued as not premium
OneRegularSeen ==
    /\ Len(waitingQueue) = 2
    /\ waitingQueue[1].isPremium
    /\ waitingQueue[1].gender # "any"
    /\ ~waitingQueue[2].isPremium
    /\ out = Signal(waitingQueue[1].id, "Waiting", None)

\* the pools that differ from q at most in the preferences stored in the
\* entries
SamePoolBut(q) ==
    {q2 \in [1..Len(q) -> [id : Users, gender : {"any", "male", "female"},
                           isPremium : BOOLEAN]] :
        \A i \in 1..Len(q) : q2[i].id = q[i].id /\ q2[i].isPremium = q[i].isPremium}

DeliveredToPartner ==
    out.sig \in {"Relayed", "FilteredAndRelayed"} => activeChats[out.user] = out.partner

\* C36: whenever no handler is in progress, the stored bad word total and
\* link total of a sender that is not premium are those of the messages
\* taken up, and, while the session lasts, so is the stored flood window
NoLostUpdates ==
    tasks = EmptyBag =>
        \A u \in Senders :
            ~isPremium[u] =>
                /\ Least2(badWordCount[u], BadWordLimit) = received[u].bad
                /\ Least2(linkSpamCount[u], LinkLimit) = received[u].links
                /\ activeChats[u] # None => floodMessages[u] = received[u].at

\* C37: the report total of a user restarts from 0: the first report that
\* is counted after the total has been set to 0 makes it 1
CountRestarts ==
    [][\A T \in InFlight :
          (T.pc = "report_counted" /\ Steps(T) /\ reportCount[T.user] = 0) =>
              reportCount'[T.user] = 1]_vars

\* the premium users whose entries are in front of the entry of user 1
Ahead(q) ==
    {q[j].id : j \in {i \in 1..Len(q) : q[i].isPremium /\ \E k \in (i + 1)..Len(q) : q[k].id = 1}}

\* a step that puts a premium user in front of user 1
EnqueuedAhead == ~(Ahead(waitingQueue') \subseteq Ahead(waitingQueue))

\* the scan of a non-preferential match request of another user
ScansPool ==
    \E T \in InFlight : T.user # 1 /\ T.pc = "fp_scan" /\ ~Preferential(T) /\ Steps(T)

\* C38: a waiting user that is not banned and never stops is eventually
\* paired, when the other users keep making non-preferential match requests
\* and from some time on no premium user is put in front of the waiting user
NoStarvation ==
    ([]<><<ScansPool>>_vars /\ <>[][~EnqueuedAhead]_vars) =>
        ((InQueue(waitingQueue, 1) /\ isActive[1]) ~> (activeChats[1] # None))

NoStarvationSeen ==
    /\ activeChats[1] = 3
    /\ out = Signal(3, "Matched", 1)
    /\ ~InQueue(waitingQueue, 1)

====
